---------------------------- MODULE Spec2Model ----------------------------
(***************************************************************************)
(* Vetur language server: the TypeScript service host                      *)
(* (server/src/services/typescriptService/serviceHost.ts) with its project *)
(* registry, tracked-file set, per-file versions and module resolution     *)
(* cache, and the script language mode (server/src/modes/script).          *)
(*                                                                         *)
(* A path is a sequence of segments and a segment is the sequence of the   *)
(* dot-separated parts of its name: /w/a/x.vue is                          *)
(* << <<"w">>, <<"a">>, <<"x","vue">> >>.                                  *)
(***************************************************************************)
EXTENDS Integers, Sequences, FiniteSets, TLC

(***************************************************************************)
(* Bounds of the model.                                                    *)
(***************************************************************************)
\* highest document version a client request carries
MaxDocVersion == 2
\* projectVersion is not incremented beyond this value
MaxProjectVersion == 3
\* number of IProject objects ever constructed
MaxProjects == 2
\* number of language service instances ever constructed
MaxEngines == 6
\* number of edits made to the content of one configuration file
MaxRev == 1
\* number of document updates the script mode's service host records
MaxUpdates == 3
\* number of times one script file is read from disk
MaxReads == 3

(***************************************************************************)
(* Paths.                                                                  *)
(***************************************************************************)
Undefined == <<"undefined">>
workspacePath == << <<"w">> >>
DirA == << <<"w">>, <<"a">> >>
DirB == << <<"w">>, <<"b">> >>
\* the directories of the composite files
Dirs == {DirA, DirB}

TsConfigName == <<"tsconfig", "json">>
JsConfigName == <<"jsconfig", "json">>
RootTsConfig == Append(workspacePath, TsConfigName)
ATsConfig == Append(DirA, TsConfigName)
AJsConfig == Append(DirA, JsConfigName)
ConfigPaths == {RootTsConfig, ATsConfig, AJsConfig}

XVue == Append(DirA, <<"x", "vue">>)
ZVue == Append(DirB, <<"z", "vue">>)
VueFiles == {XVue, ZVue}
\* a workspace js/ts file, and one the workspace configuration excludes
UtilTs == Append(DirA, <<"u", "ts">>)
GenJs == Append(Append(workspacePath, <<"dist">>), <<"g", "js">>)
ExternalFiles == {UtilTs, GenJs}
\* a composite file the workspace configuration excludes
DistVue == Append(Append(workspacePath, <<"dist">>), <<"d", "vue">>)
ExcludedFiles == {GenJs, DistVue}
\* a declaration file of a dependency
LibFile == << <<"w">>, <<"node_modules">>, <<"lib">>, <<"index", "d", "ts">> >>
\* the script files the language services read from disk
SnapshotFiles == ExternalFiles \cup {LibFile}
\* the composite files whose content on disk is followed
DiskVueFiles == {ZVue, DistVue}
\* the files a content revision on disk is kept for
DiskFiles == SnapshotFiles \cup DiskVueFiles

\* path.includes('node_modules')
IncludesNodeModules(path) ==
    \E i \in 1..Len(path) : \E j \in 1..Len(path[i]) : path[i][j] = "node_modules"

\* path.dirname: the root is its own parent
getDirectoryName(p) == IF Len(p) = 0 THEN p ELSE SubSeq(p, 1, Len(p) - 1)

\* p + suffix, for a suffix such as '.template'
AddExt(p, ext) == Append(getDirectoryName(p), Append(p[Len(p)], ext))

\* p.endsWith('.' + e1 + ... ) for the extension parts exts
EndsWithExts(p, exts) ==
    /\ Len(p) > 0
    /\ LET name == p[Len(p)]
       IN  /\ Len(name) > Len(exts)
           /\ SubSeq(name, Len(name) - Len(exts) + 1, Len(name)) = exts

isVueFile(p) == EndsWithExts(p, <<"vue">>)
isVirtualVueTemplateFile(p) == EndsWithExts(p, <<"vue", "template">>)

\* fileFsPath.endsWith('/tsconfig.json') || fileFsPath.endsWith('/jsconfig.json')
EndsWithConfigName(p) ==
    /\ Len(p) > 0
    /\ p[Len(p)] \in {TsConfigName, JsConfigName}

TemplateOf(p) == AddExt(p, "template")
TemplateFiles == {TemplateOf(f) : f \in VueFiles}

\* a document URI and the paths derived from it
Uri(p) == [scheme |-> "file", path |-> p]
getFileFsPath(uri) == uri.path
getFilePath(uri) == uri.path

(***************************************************************************)
(* Documents.  The text of a composite document is abstracted to the       *)
(* language of its script block and the content of that block.             *)
(***************************************************************************)
JsText == [lang |-> "javascript", body |-> "j", template |-> "h"]
TsText == [lang |-> "typescript", body |-> "t", template |-> "h"]
Texts == {JsText, TsText}
NoText == [lang |-> "none", body |-> "", template |-> ""]
NoDoc == [uri |-> [scheme |-> "none", path |-> <<>>], version |-> -1,
          languageId |-> "none", text |-> NoText]

\* TextDocument.create(uri, languageId, version, text)
TextDocumentCreate(uri, languageId, version, text) ==
    [uri |-> uri, version |-> version, languageId |-> languageId, text |-> text]

\* the documents the client sends for the composite files
ClientDocs ==
    {TextDocumentCreate(Uri(f), "vue", v, t) :
        f \in VueFiles, v \in 1..MaxDocVersion, t \in Texts}

\* TextDocument.create(doc.uri + '.template', doc.languageId, doc.version,
\*                     doc.getText())
templateDocOf(doc) ==
    TextDocumentCreate(Uri(TemplateOf(doc.uri.path)), doc.languageId, doc.version,
                       doc.text)

\* updatedScriptRegionDocuments.refreshAndGet(doc): the script region of doc as
\* a document of the script's language, same uri and version, the other
\* regions blanked
refreshAndGet(doc) ==
    [uri |-> doc.uri, version |-> doc.version, languageId |-> doc.text.lang,
     text |-> [lang |-> doc.text.lang, body |-> doc.text.body, template |-> ""]]

(***************************************************************************)
(* State of getServiceHost, the file system it reads, and the record of    *)
(* the last call made on it.                                               *)
(***************************************************************************)
VARIABLES
    fs,                          \* configuration files that exist on disk
    cfgRev,                      \* content revision of each configuration file
    cfgJson,                     \* whether its text parses as JSON
    currentScriptDoc,
    projectVersion,
    versions,
    localScriptRegionDocuments,
    directoryToProjects,
    projectsLanguageServices,
    projects,                    \* the IProject objects, by identity
    engineOptions,               \* options each language service's host closes over
    disposed,                    \* language services on which dispose() was called
    projectFileSnapshots,        \* the paths projectFileSnapshots has a snapshot for
    projectSnapshotOf,           \* the snapshot object it holds for each of them
    nodeModuleSnapshots,
    sysText,                     \* content revision of each script file on disk
    reads,                       \* tsModule.sys.readFile calls made for each script file
    shown,                       \* per file: the text the last getScriptSnapshot call
                                 \* returned and the version the host then reported
    moduleResolutionCache,
    scriptFileNameSet,
    allChildComponentsInfo,
    lastCall,                    \* the last call made and what it returned
    invalidated,                 \* per directory: the project whose configuration
                                 \* was updated or deleted since the last lookup
    registeredVia,               \* per file: the projects whose requests or host
                                 \* queries added it to scriptFileNameSet
    config,                      \* script mode: the configuration last given
    serviceHost,                 \* script mode: the state of its service host
    outcome                      \* script mode: the last operation and its result

snapshotVars == <<projectSnapshotOf, nodeModuleSnapshots, reads, shown>>
registryVars ==
    <<directoryToProjects, projectsLanguageServices, projects, engineOptions, disposed>>
hostVars ==
    <<currentScriptDoc, projectVersion, versions, localScriptRegionDocuments,
      projectFileSnapshots, snapshotVars, moduleResolutionCache, scriptFileNameSet,
      allChildComponentsInfo>>
modeVars == <<config, serviceHost, outcome>>
typescriptServiceVars ==
    <<fs, cfgRev, cfgJson, sysText, registryVars, hostVars, lastCall, invalidated, registeredVia>>
vars ==
    <<fs, cfgRev, cfgJson, sysText, registryVars, hostVars, lastCall, invalidated, registeredVia,
      modeVars>>

ProjectIds == 1..MaxProjects
EngineIds == 1..MaxEngines
NoProject == 0
NoEngine == 0
ConfigKeys == ConfigPaths \cup {Undefined}
DocFiles == VueFiles \cup TemplateFiles \cup {DistVue}
VersionedFiles == DocFiles \cup ExternalFiles \cup ConfigPaths \cup {LibFile}

NoOptions == [config |-> <<"none">>, rev |-> -1, configJson |-> "none"]
NullProject ==
    [options |-> NoOptions, jsLanguageService |-> NoEngine,
     templateLanguageService |-> NoEngine, attachedDirectories |-> {}]
NoHostOptions == [base |-> NoOptions, template |-> FALSE]

\* what the engine imports, and from where
BridgeModuleName == << <<"vue-editor-bridge">> >>
BridgeFileName == << <<"vue-temp">>, <<"vue-editor-bridge", "ts">> >>
LibName == << <<"lib">> >>
ZImport == << <<".">>, <<"z", "vue">> >>
ModuleNames == {BridgeModuleName, LibName, ZImport}
ContainingFiles == {UtilTs}
ModuleKeys == ModuleNames \X ContainingFiles
NoResolution ==
    [resolvedFileName |-> <<>>, extension |-> "none", under |-> NoHostOptions,
     by |-> NoProject]

\* no snapshot object
NoSnapshot == [file |-> <<>>, read |-> 0, text |-> -1]

NoCall == [op |-> "getServiceHost", path |-> <<>>, doc |-> NoDoc,
           before |-> NoDoc, was |-> NoProject, project |-> NoProject,
           results |-> <<>>, args |-> <<>>, asked |-> <<>>]

\* parsedConfig.fileNames of the workspace configuration read at construction
initialProjectFiles == {UtilTs}

\* the part of the file system the host reads
Disk == [fs |-> fs, cfgRev |-> cfgRev, cfgJson |-> cfgJson]

\* tsModule.findConfigFile(dir, fileExists, name): dir, then each ancestor
RECURSIVE findConfigFile(_, _, _)
findConfigFile(disk, dir, name) ==
    IF Append(dir, name) \in disk.fs THEN Append(dir, name)
    ELSE IF Len(dir) = 0 THEN Undefined
    ELSE findConfigFile(disk, getDirectoryName(dir), name)

getNearestConfigFile(disk, workingDirectory) ==
    LET ts == findConfigFile(disk, workingDirectory, TsConfigName)
    IN  IF ts # Undefined THEN ts
        ELSE findConfigFile(disk, workingDirectory, JsConfigName)

\* { exclude: defaultIgnorePatterns(tsModule, workspacePath) }
defaultIgnorePatterns == "defaultIgnorePatterns"

\* tsModule.readConfigFile(configFilename, readFile).config: the object the
\* text of the file holds, none when the text is not JSON
readConfigFile(disk, configFilename) ==
    IF disk.cfgJson[configFilename]
    THEN [content |-> "file", rev |-> disk.cfgRev[configFilename]]
    ELSE [content |-> "undefined", rev |-> 0]

\* Variant of getParsedConfig that takes what the reader yields as it is.
getParsedConfigOfReader(disk, configFilename) ==
    LET configJson ==
            IF configFilename \in disk.fs
            THEN readConfigFile(disk, configFilename)
            ELSE [content |-> defaultIgnorePatterns, rev |-> 0]
    IN  [config |-> IF configFilename \in disk.fs THEN configFilename ELSE Undefined,
         rev |-> configJson.rev, configJson |-> configJson.content]

\* getParsedConfig(tsModule, configFilename, workspacePath).options
getParsedConfig(disk, configFilename) ==
    LET read == IF configFilename \in disk.fs
                THEN readConfigFile(disk, configFilename)
                ELSE [content |-> "undefined", rev |-> 0]
        configJson ==
            IF read.content # "undefined" THEN read
            ELSE [content |-> defaultIgnorePatterns, rev |-> 0]
    IN  [config |-> IF configFilename \in disk.fs THEN configFilename ELSE Undefined,
         rev |-> configJson.rev, configJson |-> configJson.content]

\* the options read from configFilename; the defaults when there is none
createProjectCompilerOption(disk, configFilename) ==
    getParsedConfig(disk, configFilename)

\* createLanguageServiceHost(options) for the script service
JsHostOptions(compilerOptions) == [base |-> compilerOptions, template |-> FALSE]
\* createLanguageServiceHost({...options, noUnusedLocals: false, ...})
TemplateHostOptions(compilerOptions) == [base |-> compilerOptions, template |-> TRUE]

\* the compilerOptions object a configuration file of the workspace holds
\* ("unset": the key is absent)
UnsetFlags ==
    [noImplicitAny |-> "unset", noUnusedLocals |-> "unset",
     noUnusedParameters |-> "unset", allowJs |-> "unset", checkJs |-> "unset"]

ConfiguredFlags(configFilename, rev) ==
    IF configFilename = RootTsConfig
    THEN [UnsetFlags EXCEPT !.noImplicitAny = IF rev = 0 THEN "true" ELSE "false",
                            !.noUnusedLocals = "true"]
    ELSE IF configFilename = ATsConfig
    THEN [UnsetFlags EXCEPT !.noUnusedParameters = "true",
                            !.checkJs = IF rev = 0 THEN "false" ELSE "unset"]
    ELSE IF configFilename = AJsConfig
    THEN [UnsetFlags EXCEPT !.allowJs = "false", !.noImplicitAny = "true"]
    ELSE UnsetFlags

\* getDefaultCompilerOptions (39-52), the flags among them
getDefaultCompilerOptions == [UnsetFlags EXCEPT !.allowJs = "true"]

\* {...a, ...b}: the keys b holds take b's value
Spread(a, b) ==
    [k \in DOMAIN a |-> IF b[k] # "unset" THEN b[k] ELSE a[k]]

\* {...getDefaultCompilerOptions(tsModule), ...projectParsedConfig.options}
ProjectFlags(compilerOptions) ==
    Spread(getDefaultCompilerOptions,
           IF compilerOptions.configJson = "file"
           THEN ConfiguredFlags(compilerOptions.config, compilerOptions.rev)
           ELSE UnsetFlags)

\* what the older service host spreads over compilerOptions for its
\* template service (modes/script/serviceHost.ts 243-250)
TemplateOverridesWithImplicitAny ==
    [UnsetFlags EXCEPT !.noImplicitAny = "false", !.noUnusedLocals = "false",
                       !.noUnusedParameters = "false",
                       !.allowJs = "true", !.checkJs = "true"]

\* what createTemplateLanguageService (504-514) spreads over compilerOptions
TemplateOverrides ==
    [UnsetFlags EXCEPT !.noUnusedLocals = "false", !.noUnusedParameters = "false",
                       !.allowJs = "true", !.checkJs = "true"]

\* the flags the host of a language service was created with
HostFlags(hostOptions) ==
    IF hostOptions.template
    THEN Spread(ProjectFlags(hostOptions.base), TemplateOverrides)
    ELSE ProjectFlags(hostOptions.base)

(***************************************************************************)
(* The registry as a value, so that the steps of one handler compose.      *)
(***************************************************************************)
Registry ==
    [directoryToProjects |-> directoryToProjects,
     projectsLanguageServices |-> projectsLanguageServices,
     projects |-> projects,
     engineOptions |-> engineOptions,
     disposed |-> disposed]

SetRegistry(r) ==
    /\ directoryToProjects' = r.directoryToProjects
    /\ projectsLanguageServices' = r.projectsLanguageServices
    /\ projects' = r.projects
    /\ engineOptions' = r.engineOptions
    /\ disposed' = r.disposed

FreeEngines(r) == {e \in EngineIds : r.engineOptions[e] = NoHostOptions}
FreeProjects(r) == {p \in ProjectIds : r.projects[p] = NullProject}
Min(S) == CHOOSE x \in S : \A y \in S : x <= y

\* a language service or an IProject can still be constructed within the bounds
CanCreateEngines(r, n) == Cardinality(FreeEngines(r)) >= n
CanCreateProject(r) == FreeProjects(r) # {} /\ CanCreateEngines(r, 2)

\* tsModule.createLanguageService(jsHost, registry): a new instance e
createJSLanguageService(r, e, compilerOptions) ==
    [r EXCEPT !.engineOptions[e] = JsHostOptions(compilerOptions)]

createTemplateLanguageService(r, e, compilerOptions) ==
    [r EXCEPT !.engineOptions[e] = TemplateHostOptions(compilerOptions)]

\* languageService.dispose()
DisposeEngine(r, e) == [r EXCEPT !.disposed = @ \cup {e}]

\* getOrCreateProject: the registry afterwards
getOrCreateProject(disk, r, workingDirectory) ==
    LET configFilename == getNearestConfigFile(disk, workingDirectory)
    IN  IF r.projectsLanguageServices[configFilename] # NoProject
        THEN r
        ELSE LET compilerOptions == createProjectCompilerOption(disk, configFilename)
                 js == Min(FreeEngines(r))
                 r1 == createJSLanguageService(r, js, compilerOptions)
                 tpl == Min(FreeEngines(r1))
                 r2 == createTemplateLanguageService(r1, tpl, compilerOptions)
                 p == Min(FreeProjects(r))
             IN  [r2 EXCEPT
                    !.projects[p] =
                        [options |-> compilerOptions,
                         jsLanguageService |-> js,
                         templateLanguageService |-> tpl,
                         attachedDirectories |-> {}],
                    !.projectsLanguageServices[configFilename] = p]

\* getProjectFromWorkingDirectory: the registry afterwards
getProjectFromWorkingDirectory(disk, r, workingDirectory) ==
    IF r.directoryToProjects[workingDirectory] # NoProject
    THEN r
    ELSE LET r1 == getOrCreateProject(disk, r, workingDirectory)
             p == r1.projectsLanguageServices[getNearestConfigFile(disk, workingDirectory)]
         IN  [r1 EXCEPT
                !.projects[p].attachedDirectories = @ \cup {workingDirectory},
                !.directoryToProjects[workingDirectory] = p]

\* the lookup stays within the bounds: the project exists or can be constructed
CanLookup(disk, r, workingDirectory) ==
    \/ r.directoryToProjects[workingDirectory] # NoProject
    \/ r.projectsLanguageServices[getNearestConfigFile(disk, workingDirectory)] # NoProject
    \/ CanCreateProject(r)

(***************************************************************************)
(* The script mode (modes/script/javascript.ts) and the service host it    *)
(* is built on (modes/script/serviceHost.ts).                              *)
(***************************************************************************)
\* a document the client sends under a path that is not a .vue file
NotesMd == Append(DirA, <<"n", "md">>)
ModePaths == {XVue, NotesMd}
ModeFiles == ModePaths \cup {TemplateOf(f) : f \in ModePaths}
ModeDocs ==
    {TextDocumentCreate(Uri(XVue), "vue", 1, JsText),
     TextDocumentCreate(Uri(XVue), "vue", 2, TsText),
     TextDocumentCreate(Uri(NotesMd), "vue", 1, JsText)}

\* let config: any = {}: config.vetur is undefined
EmptyConfig == [vetur |-> FALSE, templateTypeCheck |-> FALSE, defaultFormatter |-> "none"]
\* vetur.format.defaultFormatter.js / .ts
Formatters == {"none", "prettier", "vscode-typescript"}
\* the configurations the client sends
Configs ==
    {[vetur |-> TRUE, templateTypeCheck |-> t, defaultFormatter |-> f] :
        t \in BOOLEAN, f \in Formatters}

\* what a query on the language service does
Answers == {"result", "nothing", "throws"}

\* getServiceHost of modes/script/serviceHost.ts, as constructed
NewServiceHost ==
    [currentScriptDoc |-> NoDoc,
     versions |-> [f \in ModeFiles |-> 0],
     scriptDocs |-> [f \in ModeFiles |-> NoDoc],
     files |-> initialProjectFiles,
     jsLanguageService |-> 1]

\* a Hover value: no range, and the value of an operation that returns none
NoRange == [start |-> -1, end |-> -1]
NoHover == [range |-> NoRange, contents |-> <<"none">>]

\* what the language services answered to one doValidation: nothing yet
NoRaw == [template |-> <<>>, syntactic |-> <<>>, semantic |-> <<>>]

NoOutcome ==
    [op |-> "getJavascriptMode", path |-> <<>>, included |-> FALSE,
     queried |-> FALSE, result |-> "value", list |-> <<>>, raw |-> NoRaw,
     answer |-> "none", hover |-> NoHover]

Init ==
    /\ fs \in SUBSET ConfigPaths
    /\ cfgRev = [c \in ConfigPaths |-> 0]
    /\ cfgJson = [c \in ConfigPaths |-> TRUE]
    /\ currentScriptDoc = NoDoc
    /\ projectVersion = 1
    /\ versions = [f \in VersionedFiles |-> 0]
    /\ localScriptRegionDocuments = [f \in DocFiles |-> NoDoc]
    /\ directoryToProjects = [d \in Dirs |-> NoProject]
    /\ projectsLanguageServices = [k \in ConfigKeys |-> NoProject]
    /\ projects = [p \in ProjectIds |-> NullProject]
    /\ engineOptions = [e \in EngineIds |-> NoHostOptions]
    /\ disposed = {}
    /\ projectFileSnapshots = {}
    /\ projectSnapshotOf = [f \in SnapshotFiles |-> NoSnapshot]
    /\ nodeModuleSnapshots = [f \in SnapshotFiles |-> NoSnapshot]
    /\ sysText = [f \in DiskFiles |-> 0]
    /\ reads = [f \in SnapshotFiles |-> 0]
    /\ shown = [f \in DiskFiles |-> <<>>]
    /\ moduleResolutionCache = [k \in ModuleKeys |-> NoResolution]
    /\ scriptFileNameSet = initialProjectFiles
    /\ allChildComponentsInfo = {}
    /\ lastCall = NoCall
    /\ invalidated = [d \in Dirs |-> NoProject]
    /\ registeredVia = [f \in DocFiles |-> {}]
    /\ config = EmptyConfig
    /\ serviceHost = NewServiceHost
    /\ outcome = NoOutcome


(***************************************************************************)
(* Bookkeeping of the call record.                                         *)
(***************************************************************************)
Call(op, path, doc, before, was, project) ==
    [op |-> op, path |-> path, doc |-> doc, before |-> before, was |-> was,
     project |-> project, results |-> <<>>, args |-> <<>>, asked |-> <<>>]

\* a lookup of dirPath answered with project p
NoteLookup(op, path, doc, before, dirPath, p) ==
    /\ lastCall' = Call(op, path, doc, before, invalidated[dirPath], p)
    /\ invalidated' = [invalidated EXCEPT ![dirPath] = NoProject]

\* the configuration of project p is updated or deleted
NoteInvalidation(p) ==
    invalidated' =
        [d \in Dirs |->
            IF p # NoProject /\ directoryToProjects[d] = p THEN p ELSE invalidated[d]]

\* files were added to scriptFileNameSet on behalf of project p
NoteRegistered(files, p) ==
    registeredVia' =
        [f \in DocFiles |-> IF f \in files THEN registeredVia[f] \cup {p}
                            ELSE registeredVia[f]]

(***************************************************************************)
(* updateCurrentVueTextDocument (serviceHost.ts 182-214)                   *)
(***************************************************************************)
\* "When file is not in language service, add it"
AddedWhenUnknown(fileFsPath, filePath) ==
    IF /\ localScriptRegionDocuments[fileFsPath] = NoDoc
       /\ (isVueFile(fileFsPath) \/ isVirtualVueTemplateFile(fileFsPath))
    THEN {filePath}
    ELSE {}

\* Variant of DocChanged that compares the uri alone.
DocChangedByUriOnly(doc) ==
    \/ currentScriptDoc = NoDoc
    \/ doc.uri # currentScriptDoc.uri

\* !currentScriptDoc || doc.uri !== currentScriptDoc.uri
\*                   || doc.version !== currentScriptDoc.version
DocChanged(doc) ==
    \/ currentScriptDoc = NoDoc
    \/ doc.uri # currentScriptDoc.uri
    \/ doc.version # currentScriptDoc.version

\* Variant of RestartJsLanguageService that does not dispose the old service.
RestartJsLanguageServiceKeepingOld(r, p) ==
    LET e == Min(FreeEngines(r))
        r2 == createJSLanguageService(r, e, r.projects[p].options)
    IN  [r2 EXCEPT !.projects[p].jsLanguageService = e]

\* the script service of project p is disposed and replaced
RestartJsLanguageService(r, p) ==
    LET r1 == DisposeEngine(r, r.projects[p].jsLanguageService)
        e == Min(FreeEngines(r1))
        r2 == createJSLanguageService(r1, e, r1.projects[p].options)
    IN  [r2 EXCEPT !.projects[p].jsLanguageService = e]

updateCurrentVueTextDocument(doc) ==
    LET fileFsPath == getFileFsPath(doc.uri)
        filePath == getFilePath(doc.uri)
        dirPath == getDirectoryName(fileFsPath)
        added == AddedWhenUnknown(fileFsPath, filePath)
        r1 == getProjectFromWorkingDirectory(Disk, Registry, dirPath)
        p == r1.directoryToProjects[dirPath]
        newDoc == refreshAndGet(doc)
        localLastDoc == localScriptRegionDocuments[fileFsPath]
        restart == localLastDoc # NoDoc /\ newDoc.languageId # localLastDoc.languageId
    IN  /\ CanLookup(Disk, Registry, dirPath)
        /\ IF DocChanged(doc)
           THEN /\ projectVersion < MaxProjectVersion
                /\ restart => CanCreateEngines(r1, 1)
                /\ currentScriptDoc' = newDoc
                /\ SetRegistry(IF restart THEN RestartJsLanguageService(r1, p) ELSE r1)
                /\ localScriptRegionDocuments' =
                       [localScriptRegionDocuments EXCEPT ![fileFsPath] = newDoc]
                /\ scriptFileNameSet' = scriptFileNameSet \cup added \cup {filePath}
                /\ versions' = [versions EXCEPT ![fileFsPath] = @ + 1]
                /\ projectVersion' = projectVersion + 1
                /\ NoteRegistered({filePath}, p)
           ELSE /\ SetRegistry(r1)
                /\ scriptFileNameSet' = scriptFileNameSet \cup added
                /\ NoteRegistered(added, p)
                /\ UNCHANGED <<currentScriptDoc, localScriptRegionDocuments, versions,
                               projectVersion>>
        /\ NoteLookup("updateCurrentVueTextDocument", fileFsPath, doc, localLastDoc,
                      dirPath, p)
        /\ UNCHANGED <<modeVars, fs, cfgRev, cfgJson, sysText, projectFileSnapshots, snapshotVars, moduleResolutionCache,
                       allChildComponentsInfo>>

(***************************************************************************)
(* updateCurrentVirtualVueTextDocument (serviceHost.ts 155-180)            *)
(***************************************************************************)
updateCurrentVirtualVueTextDocument(doc, childComponents) ==
    LET fileFsPath == getFileFsPath(doc.uri)
        filePath == getFilePath(doc.uri)
        dirPath == getDirectoryName(fileFsPath)
        added == AddedWhenUnknown(fileFsPath, filePath)
        r1 == getProjectFromWorkingDirectory(Disk, Registry, dirPath)
        p == r1.directoryToProjects[dirPath]
    IN  /\ CanLookup(Disk, Registry, dirPath)
        /\ IF isVirtualVueTemplateFile(fileFsPath)
           THEN /\ projectVersion < MaxProjectVersion
                /\ localScriptRegionDocuments' =
                       [localScriptRegionDocuments EXCEPT ![fileFsPath] = doc]
                /\ scriptFileNameSet' = scriptFileNameSet \cup added \cup {filePath}
                /\ allChildComponentsInfo' =
                       IF childComponents THEN allChildComponentsInfo \cup {filePath}
                       ELSE allChildComponentsInfo
                /\ versions' = [versions EXCEPT ![fileFsPath] = @ + 1]
                /\ projectVersion' = projectVersion + 1
                /\ NoteRegistered({filePath}, p)
           ELSE /\ scriptFileNameSet' = scriptFileNameSet \cup added
                /\ NoteRegistered(added, p)
                /\ UNCHANGED <<localScriptRegionDocuments, allChildComponentsInfo,
                               versions, projectVersion>>
        /\ SetRegistry(r1)
        /\ NoteLookup("updateCurrentVirtualVueTextDocument", fileFsPath, doc,
                      localScriptRegionDocuments[fileFsPath], dirPath, p)
        /\ UNCHANGED <<modeVars, fs, cfgRev, cfgJson, sysText, currentScriptDoc, projectFileSnapshots, snapshotVars,
                       moduleResolutionCache>>

(***************************************************************************)
(* queryVirtualFileInfo (serviceHost.ts 130-153): the lookup it makes      *)
(***************************************************************************)
queryVirtualFileInfo(fileName) ==
    LET dirPath == getDirectoryName(fileName)
        r1 == getProjectFromWorkingDirectory(Disk, Registry, dirPath)
    IN  /\ CanLookup(Disk, Registry, dirPath)
        /\ SetRegistry(r1)
        /\ NoteLookup("queryVirtualFileInfo", fileName, NoDoc, NoDoc, dirPath,
                      r1.directoryToProjects[dirPath])
        /\ UNCHANGED <<modeVars, fs, cfgRev, cfgJson, sysText, hostVars, registeredVia>>


(***************************************************************************)
(* updateExternalDocument (serviceHost.ts 217-261)                         *)
(***************************************************************************)
\* Variant of isExcludedFile for a configuration that excludes nothing.
isExcludedFileNever(fileFsPath) == FALSE

\* isExcludedFile(fileFsPath, configFileSpecs, workspacePath, ...)
isExcludedFile(fileFsPath) == fileFsPath \in ExcludedFiles

IsLoadedConfig(r, fileFsPath) ==
    fileFsPath \in ConfigKeys /\ r.projectsLanguageServices[fileFsPath] # NoProject

\* Variant of ReloadProject that replaces the options and keeps the services.
ReloadProjectOptionsOnly(disk, r, fileFsPath) ==
    [r EXCEPT !.projects[r.projectsLanguageServices[fileFsPath]].options =
                  createProjectCompilerOption(disk, fileFsPath)]

\* "Loaded and updated": options and both services of the project are replaced
ReloadProject(disk, r, fileFsPath) ==
    LET p == r.projectsLanguageServices[fileFsPath]
        compilerOptions == createProjectCompilerOption(disk, fileFsPath)
        r1 == [r EXCEPT !.projects[p].options = compilerOptions]
        r2 == DisposeEngine(r1, r1.projects[p].jsLanguageService)
        js == Min(FreeEngines(r2))
        r3 == [createJSLanguageService(r2, js, compilerOptions)
                 EXCEPT !.projects[p].jsLanguageService = js]
        r4 == DisposeEngine(r3, r3.projects[p].templateLanguageService)
        tpl == Min(FreeEngines(r4))
    IN  [createTemplateLanguageService(r4, tpl, compilerOptions)
           EXCEPT !.projects[p].templateLanguageService = tpl]

\* "Created or unloaded": the directories of the parent project are detached
DetachParentDirectories(disk, r, fileFsPath) ==
    LET parentConfigFilename ==
            getNearestConfigFile(disk, getDirectoryName(getDirectoryName(fileFsPath)))
        parentProject == r.projectsLanguageServices[parentConfigFilename]
    IN  IF parentProject # NoProject
        THEN [r EXCEPT !.directoryToProjects =
                 [d \in Dirs |->
                     IF d \in r.projects[parentProject].attachedDirectories
                     THEN NoProject ELSE @[d]]]
        ELSE r

\* Variant of updateExternalDocument that leaves the project version.
updateExternalDocumentKeepingProjectVersion(disk, fileFsPath) ==
    IF isExcludedFile(fileFsPath)
    THEN UNCHANGED <<registryVars, hostVars>>
    ELSE /\ projectVersion < MaxProjectVersion
         /\ versions' = [versions EXCEPT ![fileFsPath] = @ + 1]
         /\ projectVersion' = projectVersion
         /\ projectFileSnapshots' = projectFileSnapshots \ {fileFsPath}
         /\ projectSnapshotOf' =
                [f \in SnapshotFiles |->
                    IF f = fileFsPath THEN NoSnapshot ELSE projectSnapshotOf[f]]
         /\ UNCHANGED <<nodeModuleSnapshots, reads, shown>>
         /\ IF IsLoadedConfig(Registry, fileFsPath)
            THEN /\ CanCreateEngines(Registry, 2)
                 /\ SetRegistry(ReloadProject(disk, Registry, fileFsPath))
            ELSE IF EndsWithConfigName(fileFsPath)
            THEN SetRegistry(DetachParentDirectories(disk, Registry, fileFsPath))
            ELSE UNCHANGED registryVars
         /\ UNCHANGED <<currentScriptDoc, localScriptRegionDocuments,
                        moduleResolutionCache, scriptFileNameSet,
                        allChildComponentsInfo>>

updateExternalDocument(disk, fileFsPath) ==
    IF isExcludedFile(fileFsPath)
    THEN UNCHANGED <<registryVars, hostVars>>
    ELSE /\ projectVersion < MaxProjectVersion
         /\ versions' = [versions EXCEPT ![fileFsPath] = @ + 1]
         /\ projectVersion' = projectVersion + 1
         /\ projectFileSnapshots' = projectFileSnapshots \ {fileFsPath}
         /\ projectSnapshotOf' =
                [f \in SnapshotFiles |->
                    IF f = fileFsPath THEN NoSnapshot ELSE projectSnapshotOf[f]]
         /\ UNCHANGED <<nodeModuleSnapshots, reads, shown>>
         /\ IF IsLoadedConfig(Registry, fileFsPath)
            THEN /\ CanCreateEngines(Registry, 2)
                 /\ SetRegistry(ReloadProject(disk, Registry, fileFsPath))
            ELSE IF EndsWithConfigName(fileFsPath)
            THEN SetRegistry(DetachParentDirectories(disk, Registry, fileFsPath))
            ELSE UNCHANGED registryVars
         /\ UNCHANGED <<currentScriptDoc, localScriptRegionDocuments,
                        moduleResolutionCache, scriptFileNameSet,
                        allChildComponentsInfo>>

(***************************************************************************)
(* deleteExternalDocument (serviceHost.ts 264-276)                         *)
(***************************************************************************)
\* Variant of RemoveProject that leaves the directories attached.
RemoveProjectKeepingDirectories(r, fileFsPath) ==
    LET p == r.projectsLanguageServices[fileFsPath]
        project == r.projects[p]
    IN  [r EXCEPT
           !.projectsLanguageServices[fileFsPath] = NoProject,
           !.projects[p].attachedDirectories = {},
           !.disposed = @ \cup {project.jsLanguageService,
                                project.templateLanguageService}]

\* the project of fileFsPath is unregistered, detached and disposed
RemoveProject(r, fileFsPath) ==
    LET p == r.projectsLanguageServices[fileFsPath]
        project == r.projects[p]
    IN  [r EXCEPT
           !.projectsLanguageServices[fileFsPath] = NoProject,
           !.directoryToProjects =
               [d \in Dirs |-> IF d \in project.attachedDirectories
                               THEN NoProject ELSE @[d]],
           !.projects[p].attachedDirectories = {},
           !.disposed = @ \cup {project.jsLanguageService,
                                project.templateLanguageService}]

\* Variant of deleteExternalDocument that also forgets the deleted path.
deleteExternalDocumentUntracking(fileFsPath) ==
    /\ IF IsLoadedConfig(Registry, fileFsPath)
       THEN SetRegistry(RemoveProject(Registry, fileFsPath))
       ELSE UNCHANGED registryVars
    /\ scriptFileNameSet' = scriptFileNameSet \ {fileFsPath}
    /\ UNCHANGED <<currentScriptDoc, projectVersion, versions,
                   localScriptRegionDocuments, projectFileSnapshots, snapshotVars,
                   moduleResolutionCache, allChildComponentsInfo>>

deleteExternalDocument(fileFsPath) ==
    /\ IF IsLoadedConfig(Registry, fileFsPath)
       THEN SetRegistry(RemoveProject(Registry, fileFsPath))
       ELSE UNCHANGED registryVars
    /\ UNCHANGED hostVars

(***************************************************************************)
(* dispose (serviceHost.ts 557-564)                                        *)
(***************************************************************************)
dispose ==
    LET registered == {projectsLanguageServices[k] : k \in ConfigKeys} \ {NoProject}
        services == UNION {{projects[p].jsLanguageService,
                            projects[p].templateLanguageService} : p \in registered}
    IN  /\ SetRegistry([Registry EXCEPT
                           !.disposed = @ \cup services,
                           !.projectsLanguageServices = [k \in ConfigKeys |-> NoProject],
                           !.directoryToProjects = [d \in Dirs |-> NoProject]])
        /\ lastCall' = Call("dispose", <<>>, NoDoc, NoDoc, NoProject, NoProject)
        /\ UNCHANGED <<modeVars, fs, cfgRev, cfgJson, sysText, hostVars, invalidated, registeredVia>>

(***************************************************************************)
(* File system events, each reported to the host as it happens.            *)
(***************************************************************************)
LoadedProject(fileFsPath) ==
    IF fileFsPath \in ConfigKeys THEN projectsLanguageServices[fileFsPath] ELSE NoProject

CreateConfig(c) ==
    /\ c \notin fs
    /\ fs' = fs \cup {c}
    /\ cfgRev' = [cfgRev EXCEPT ![c] = 0]
    /\ cfgJson' = [cfgJson EXCEPT ![c] = TRUE]
    /\ updateExternalDocument([fs |-> fs', cfgRev |-> cfgRev', cfgJson |-> cfgJson'], c)
    /\ lastCall' = Call("updateExternalDocument", c, NoDoc, NoDoc, NoProject,
                        LoadedProject(c))
    /\ NoteInvalidation(LoadedProject(c))
    /\ UNCHANGED <<modeVars, sysText, registeredVia>>

EditConfig(c) ==
    /\ c \in fs
    /\ cfgRev[c] < MaxRev
    /\ cfgRev' = [cfgRev EXCEPT ![c] = @ + 1]
    /\ cfgJson' = [cfgJson EXCEPT ![c] = TRUE]
    /\ updateExternalDocument([fs |-> fs, cfgRev |-> cfgRev', cfgJson |-> cfgJson'], c)
    /\ lastCall' = Call("updateExternalDocument", c, NoDoc, NoDoc, NoProject,
                        LoadedProject(c))
    /\ NoteInvalidation(LoadedProject(c))
    /\ UNCHANGED <<modeVars, fs, sysText, registeredVia>>

RemoveConfig(c) ==
    /\ c \in fs
    /\ fs' = fs \ {c}
    /\ cfgRev' = [cfgRev EXCEPT ![c] = 0]
    /\ cfgJson' = [cfgJson EXCEPT ![c] = TRUE]
    /\ deleteExternalDocument(c)
    /\ lastCall' = Call("deleteExternalDocument", c, NoDoc, NoDoc, NoProject,
                        LoadedProject(c))
    /\ NoteInvalidation(LoadedProject(c))
    /\ UNCHANGED <<modeVars, sysText, registeredVia>>

\* c is written with text that is not JSON
WriteInvalidConfig(c) ==
    /\ cfgJson[c]
    /\ fs' = fs \cup {c}
    /\ cfgRev' = [cfgRev EXCEPT ![c] = 0]
    /\ cfgJson' = [cfgJson EXCEPT ![c] = FALSE]
    /\ updateExternalDocument([fs |-> fs', cfgRev |-> cfgRev', cfgJson |-> cfgJson'], c)
    /\ lastCall' = Call("updateExternalDocument", c, NoDoc, NoDoc, NoProject,
                        LoadedProject(c))
    /\ NoteInvalidation(LoadedProject(c))
    /\ UNCHANGED <<modeVars, sysText, registeredVia>>

ExternalFileChanged(f) ==
    /\ updateExternalDocument(Disk, f)
    /\ lastCall' = Call("updateExternalDocument", f, NoDoc, NoDoc, NoProject, NoProject)
    /\ UNCHANGED <<modeVars, fs, cfgRev, cfgJson, sysText, invalidated, registeredVia>>

ExternalFileDeleted(f) ==
    /\ deleteExternalDocument(f)
    /\ lastCall' = Call("deleteExternalDocument", f, NoDoc, NoDoc, NoProject, NoProject)
    /\ UNCHANGED <<modeVars, fs, cfgRev, cfgJson, sysText, invalidated, registeredVia>>


(***************************************************************************)
(* The LanguageServiceHost a language service queries                      *)
(* (createLanguageServiceHost, serviceHost.ts 278-486).                    *)
(***************************************************************************)
\* language services that exist and were not disposed
LiveEngines == {e \in EngineIds : engineOptions[e] # NoHostOptions /\ e \notin disposed}

\* the project whose script or template service e is
Owner(e) ==
    LET owners == {p \in ProjectIds : e \in {projects[p].jsLanguageService,
                                             projects[p].templateLanguageService}}
    IN  IF owners = {} THEN NoProject ELSE Min(owners)

\* getScriptFileNames: () => Array.from(scriptFileNameSet)
getScriptFileNames(e) == scriptFileNameSet

\* what tsModule.sys.readFile(fileName) || '' can yield for a composite file
EmptyText == [lang |-> "javascript", body |-> "", template |-> ""]
DiskTexts == Texts \cup {EmptyText}

\* the script document of a composite file not recorded yet, read from disk
LoadFromDisk(fileName, text) ==
    refreshAndGet(TextDocumentCreate(Uri(fileName), "vue", 0, text))

\* getScriptKind (296-322) for a composite file
getScriptKind(e, fileName, text) ==
    /\ e \in LiveEngines
    /\ isVueFile(fileName)
    /\ IF localScriptRegionDocuments[fileName] = NoDoc
       THEN /\ localScriptRegionDocuments' =
                   [localScriptRegionDocuments EXCEPT
                       ![fileName] = LoadFromDisk(fileName, text)]
            /\ scriptFileNameSet' = scriptFileNameSet \cup {fileName}
            /\ NoteRegistered({fileName}, Owner(e))
       ELSE UNCHANGED <<localScriptRegionDocuments, scriptFileNameSet, registeredVia>>
    /\ lastCall' = Call("getScriptKind", fileName, NoDoc,
                        localScriptRegionDocuments[fileName], NoProject, Owner(e))
    /\ UNCHANGED <<modeVars, fs, cfgRev, cfgJson, sysText, registryVars, currentScriptDoc, projectVersion, versions,
                   projectFileSnapshots, snapshotVars, moduleResolutionCache, allChildComponentsInfo,
                   invalidated>>

\* tsModule.sys.readFile(fileName) || '' wrapped in a new IScriptSnapshot
\* object: the read-th one made for the file
NewSnapshot(fileName) ==
    [file |-> fileName, read |-> reads[fileName] + 1, text |-> sysText[fileName]]

\* what getScriptVersion (283-295) answers for fileName
ScriptVersionOf(fileName) ==
    IF IncludesNodeModules(fileName) THEN "0"
    ELSE IF fileName = BridgeFileName THEN "0"
    ELSE IF versions[fileName] # 0 THEN ToString(versions[fileName]) ELSE "0"

\* the composite text a content revision of a composite file stands for
VueTextOfRev(rev) == IF rev = 0 THEN JsText ELSE [JsText EXCEPT !.body = "k"]

\* tsModule.sys.readFile(fileFsPath) || '' for a composite file
DiskVueText(fileFsPath) == VueTextOfRev(sysText[fileFsPath])

\* parseVueScript(fileText): the script region of the composite text
parseVueScript(fileText) ==
    refreshAndGet(TextDocumentCreate(Uri(<<>>), "vue", 0, fileText)).text

\* the text of the snapshot of a composite file (463-473): the recorded script
\* document's, else the script region of what the file holds on disk
VueSnapshotText(fileFsPath) ==
    LET doc == localScriptRegionDocuments[fileFsPath]
    IN  IF doc # NoDoc THEN doc.text ELSE parseVueScript(DiskVueText(fileFsPath))

\* the snapshot handed to the language service, with the version of the file
\* the host reports in the same state
Returned(e, fileName, snapshot) ==
    /\ lastCall' = [Call("getScriptSnapshot", fileName, NoDoc, NoDoc, NoProject, Owner(e))
                      EXCEPT !.results = <<snapshot>>]
    /\ shown' = [shown EXCEPT ![fileName] =
                    <<[text |-> snapshot.text, version |-> ScriptVersionOf(fileName)]>>]

\* Variant of getScriptSnapshot that reads the file anew on every call.
getScriptSnapshotUncached(e, fileName) ==
    /\ e \in LiveEngines
    /\ fileName \in SnapshotFiles
    /\ reads[fileName] < MaxReads
    /\ reads' = [reads EXCEPT ![fileName] = @ + 1]
    /\ IF IncludesNodeModules(fileName)
       THEN /\ nodeModuleSnapshots' =
                   [nodeModuleSnapshots EXCEPT ![fileName] = NewSnapshot(fileName)]
            /\ UNCHANGED <<projectFileSnapshots, projectSnapshotOf>>
       ELSE /\ projectFileSnapshots' = projectFileSnapshots \cup {fileName}
            /\ projectSnapshotOf' =
                   [projectSnapshotOf EXCEPT ![fileName] = NewSnapshot(fileName)]
            /\ UNCHANGED nodeModuleSnapshots
    /\ Returned(e, fileName, NewSnapshot(fileName))
    /\ UNCHANGED <<modeVars, fs, cfgRev, cfgJson, sysText, registryVars, currentScriptDoc,
                   projectVersion, versions, localScriptRegionDocuments,
                   moduleResolutionCache, scriptFileNameSet, allChildComponentsInfo,
                   invalidated, registeredVia>>

\* getScriptSnapshot (405-480) for a file of node_modules (406-418), for a
\* js/ts file of the workspace (448-461) and for a composite file (463-479)
getScriptSnapshot(e, fileName) ==
    /\ e \in LiveEngines
    /\ fileName \in DiskFiles
    /\ IF IncludesNodeModules(fileName)
       THEN IF nodeModuleSnapshots[fileName] # NoSnapshot
            THEN /\ Returned(e, fileName, nodeModuleSnapshots[fileName])
                 /\ UNCHANGED <<projectFileSnapshots, projectSnapshotOf,
                                nodeModuleSnapshots, reads>>
            ELSE /\ reads[fileName] < MaxReads
                 /\ reads' = [reads EXCEPT ![fileName] = @ + 1]
                 /\ nodeModuleSnapshots' =
                        [nodeModuleSnapshots EXCEPT ![fileName] = NewSnapshot(fileName)]
                 /\ Returned(e, fileName, NewSnapshot(fileName))
                 /\ UNCHANGED <<projectFileSnapshots, projectSnapshotOf>>
       ELSE IF ~isVueFile(fileName)
       THEN IF fileName \in projectFileSnapshots
            THEN /\ Returned(e, fileName, projectSnapshotOf[fileName])
                 /\ UNCHANGED <<projectFileSnapshots, projectSnapshotOf,
                                nodeModuleSnapshots, reads>>
            ELSE /\ reads[fileName] < MaxReads
                 /\ reads' = [reads EXCEPT ![fileName] = @ + 1]
                 /\ projectFileSnapshots' = projectFileSnapshots \cup {fileName}
                 /\ projectSnapshotOf' =
                        [projectSnapshotOf EXCEPT ![fileName] = NewSnapshot(fileName)]
                 /\ Returned(e, fileName, NewSnapshot(fileName))
                 /\ UNCHANGED nodeModuleSnapshots
       ELSE /\ Returned(e, fileName,
                        [file |-> fileName, read |-> 0,
                         text |-> VueSnapshotText(fileName)])
            /\ UNCHANGED <<projectFileSnapshots, projectSnapshotOf,
                           nodeModuleSnapshots, reads>>
    /\ UNCHANGED <<modeVars, fs, cfgRev, cfgJson, sysText, registryVars, currentScriptDoc,
                   projectVersion, versions, localScriptRegionDocuments,
                   moduleResolutionCache, scriptFileNameSet, allChildComponentsInfo,
                   invalidated, registeredVia>>

\* version ? version.toString() : '0'
VersionString(version) == IF version # 0 THEN ToString(version) ELSE "0"

\* Variant of getScriptVersion that answers from the versions map alone.
getScriptVersionOfMap(e, fileName) ==
    /\ e \in LiveEngines
    /\ lastCall' =
           [Call("getScriptVersion", fileName, NoDoc, NoDoc, NoProject, Owner(e))
              EXCEPT !.results =
                  << IF fileName = BridgeFileName THEN "0"
                     ELSE VersionString(versions[fileName]) >>]
    /\ UNCHANGED <<modeVars, fs, cfgRev, cfgJson, sysText, registryVars, hostVars,
                   invalidated, registeredVia>>

\* getScriptVersion (283-295)
getScriptVersion(e, fileName) ==
    /\ e \in LiveEngines
    /\ lastCall' =
           [Call("getScriptVersion", fileName, NoDoc, NoDoc, NoProject, Owner(e))
              EXCEPT !.results =
                  << ScriptVersionOf(fileName) >>]
    /\ UNCHANGED <<modeVars, fs, cfgRev, cfgJson, sysText, registryVars, hostVars,
                   invalidated, registeredVia>>

\* a script file is written on disk and the watcher reports it
ExternalFileWritten(f) ==
    /\ sysText' = [sysText EXCEPT ![f] = (@ + 1) % (MaxRev + 1)]
    /\ updateExternalDocument(Disk, f)
    /\ lastCall' = Call("updateExternalDocument", f, NoDoc, NoDoc, NoProject, NoProject)
    /\ UNCHANGED <<modeVars, fs, cfgRev, cfgJson, invalidated, registeredVia>>

\* the file a module name resolves to when the resolver finds one
ResolvedFileOf(name) == IF name = ZImport THEN Append(ZVue, "ts") ELSE LibFile

\* resolvedFileName.slice(0, -'.ts'.length)
StripTs(f) ==
    Append(getDirectoryName(f), SubSeq(f[Len(f)], 1, Len(f[Len(f)]) - 1))

ExtensionOf(languageId) ==
    IF languageId = "typescript" THEN "ts"
    ELSE IF languageId = "tsx" THEN "tsx"
    ELSE "js"

\* tsModule.resolveModuleName(name, containingFile, options, sys).resolvedModule
\* when it finds the module: the result depends on the options it resolves under
resolveModuleName(e, name) ==
    [resolvedFileName |-> ResolvedFileOf(name), extension |-> "ts",
     under |-> engineOptions[e], by |-> Owner(e)]

\* the state the resolution of one name reads and writes
ResolverState ==
    [cache |-> moduleResolutionCache, docs |-> localScriptRegionDocuments,
     files |-> scriptFileNameSet, added |-> {}, results |-> <<>>, asked |-> <<>>]

\* the body of moduleNames.map (342-401) for one name; found and text are
\* what the resolver and the disk answer
ResolveOne(e, st, name, containingFile, found, text) ==
    LET key == <<name, containingFile>>
        ret(st1, res) == [st1 EXCEPT !.results = Append(@, res)]
        \* tsModule.resolveModuleName is called for name
        ask == [st EXCEPT !.asked = Append(@, name)]
    IN  IF name = BridgeModuleName
        THEN ret(st, [resolvedFileName |-> BridgeFileName, extension |-> "ts",
                      under |-> NoHostOptions, by |-> NoProject])
        ELSE IF st.cache[key] # NoResolution
        THEN ret(st, st.cache[key])
        ELSE IF ~isVueFile(name)
        THEN IF found
             THEN ret([ask EXCEPT !.cache[key] = resolveModuleName(e, name)],
                      resolveModuleName(e, name))
             ELSE ret(ask, NoResolution)
        ELSE IF ~found
        THEN ret(ask, NoResolution)
        ELSE LET tsResolvedModule == resolveModuleName(e, name)
             IN  IF EndsWithExts(tsResolvedModule.resolvedFileName, <<"vue", "ts">>)
                 THEN LET resolvedFileName == StripTs(tsResolvedModule.resolvedFileName)
                          known == ask.docs[resolvedFileName] # NoDoc
                          doc == IF known THEN ask.docs[resolvedFileName]
                                 ELSE LoadFromDisk(resolvedFileName, text)
                          st1 == IF known THEN ask
                                 ELSE [ask EXCEPT !.docs[resolvedFileName] = doc,
                                                  !.files = @ \cup {resolvedFileName},
                                                  !.added = @ \cup {resolvedFileName}]
                          tsResolvedVueModule ==
                              [tsResolvedModule EXCEPT
                                  !.resolvedFileName = resolvedFileName,
                                  !.extension = ExtensionOf(doc.languageId)]
                      IN  ret([st1 EXCEPT !.cache[key] = tsResolvedVueModule],
                              tsResolvedVueModule)
                 ELSE ret([ask EXCEPT !.cache[key] = tsResolvedModule], tsResolvedModule)

RECURSIVE ResolveAll(_, _, _, _, _, _)
ResolveAll(e, st, moduleNames, containingFile, founds, text) ==
    IF moduleNames = <<>> THEN st
    ELSE ResolveAll(e,
                    ResolveOne(e, st, Head(moduleNames), containingFile, Head(founds), text),
                    Tail(moduleNames), containingFile, Tail(founds), text)

\* Variant of resolveModuleNames that stores no resolution.
resolveModuleNamesNotStoring(e, moduleNames, containingFile, founds, text) ==
    LET st == ResolveAll(e, ResolverState, moduleNames, containingFile, founds, text)
    IN  /\ e \in LiveEngines
        /\ moduleResolutionCache' = moduleResolutionCache
        /\ localScriptRegionDocuments' = st.docs
        /\ scriptFileNameSet' = st.files
        /\ NoteRegistered(st.added, Owner(e))
        /\ lastCall' = [Call("resolveModuleNames", containingFile, NoDoc, NoDoc,
                             NoProject, Owner(e))
                          EXCEPT !.results = st.results,
                                 !.args = <<moduleNames, founds>>,
                                 !.asked = st.asked]
        /\ UNCHANGED <<modeVars, fs, cfgRev, cfgJson, sysText, registryVars, currentScriptDoc, projectVersion,
                       versions, projectFileSnapshots, snapshotVars, allChildComponentsInfo,
                       invalidated>>

resolveModuleNames(e, moduleNames, containingFile, founds, text) ==
    LET st == ResolveAll(e, ResolverState, moduleNames, containingFile, founds, text)
    IN  /\ e \in LiveEngines
        /\ moduleResolutionCache' = st.cache
        /\ localScriptRegionDocuments' = st.docs
        /\ scriptFileNameSet' = st.files
        /\ NoteRegistered(st.added, Owner(e))
        /\ lastCall' = [Call("resolveModuleNames", containingFile, NoDoc, NoDoc,
                             NoProject, Owner(e))
                          EXCEPT !.results = st.results,
                                 !.args = <<moduleNames, founds>>,
                                 !.asked = st.asked]
        /\ UNCHANGED <<modeVars, fs, cfgRev, cfgJson, sysText, registryVars, currentScriptDoc, projectVersion,
                       versions, projectFileSnapshots, snapshotVars, allChildComponentsInfo,
                       invalidated>>


(***************************************************************************)
(* The project registry under configuration changes: lookups for the two   *)
(* directories, configuration files created, edited and removed, and the   *)
(* module resolutions of the projects' language services.                  *)
(***************************************************************************)
NextRegistry ==
    \/ \E fileName \in VueFiles : queryVirtualFileInfo(fileName)
    \/ \E c \in ConfigPaths : CreateConfig(c)
    \/ \E c \in ConfigPaths : EditConfig(c)
    \/ \E c \in ConfigPaths : RemoveConfig(c)
    \/ \E e \in EngineIds, found \in BOOLEAN :
           resolveModuleNames(e, <<LibName>>, UtilTs, <<found>>, JsText)

SpecRegistry == Init /\ [][NextRegistry]_vars

(***************************************************************************)
(* The documents of two projects: requests for the composite files of      *)
(* directory a (its own tsconfig.json) and directory b (no configuration), *)
(* and the queries of the projects' language services.                     *)
(***************************************************************************)
HostDocs ==
    {TextDocumentCreate(Uri(XVue), "vue", 1, JsText),
     TextDocumentCreate(Uri(XVue), "vue", 2, TsText),
     TextDocumentCreate(Uri(ZVue), "vue", 1, JsText)}

HostTemplateDocs == {templateDocOf(d) : d \in HostDocs}

InitHost == Init /\ fs = {ATsConfig}

NextDocs ==
    \/ \E doc \in ClientDocs : updateCurrentVueTextDocument(doc)
    \/ \E doc \in HostTemplateDocs, childComponents \in BOOLEAN :
           updateCurrentVirtualVueTextDocument(doc, childComponents)
    \/ \E e \in EngineIds, fileName \in VueFiles, text \in DiskTexts :
           getScriptKind(e, fileName, text)
    \/ \E e \in EngineIds : getScriptSnapshot(e, UtilTs)

\* both directories have a tsconfig.json governing them
InitDocs == Init /\ fs = {RootTsConfig, ATsConfig}

SpecDocs == InitDocs /\ [][NextDocs]_vars

(***************************************************************************)
(* The service host under every call a client, the file watcher or a       *)
(* language service makes on it, for a workspace whose directory a has a   *)
(* tsconfig.json of its own.                                               *)
(***************************************************************************)
NextHost ==
    \/ \E doc \in HostDocs : updateCurrentVueTextDocument(doc)
    \/ \E doc \in HostTemplateDocs :
           updateCurrentVirtualVueTextDocument(doc, doc.version = 1)
    \/ queryVirtualFileInfo(ZVue)
    \/ CreateConfig(RootTsConfig)
    \/ EditConfig(ATsConfig)
    \/ RemoveConfig(ATsConfig)
    \/ \E f \in ExternalFiles : ExternalFileChanged(f)
    \/ \E f \in ExternalFiles : ExternalFileDeleted(f)
    \/ \E e \in EngineIds : getScriptKind(e, ZVue, JsText)
    \/ \E e \in EngineIds : resolveModuleNames(e, <<ZImport>>, UtilTs, <<TRUE>>, TsText)
    \/ dispose

SpecHost == InitHost /\ [][NextHost]_vars


(***************************************************************************)
(* The snapshots and versions of script files: one project, the script     *)
(* files on disk written and reported, and the queries of the project's    *)
(* language services about them.                                           *)
(***************************************************************************)
NextSnapshots ==
    \/ queryVirtualFileInfo(ZVue)
    \/ \E f \in SnapshotFiles : ExternalFileWritten(f)
    \/ \E f \in SnapshotFiles : ExternalFileChanged(f)
    \/ \E e \in EngineIds, f \in SnapshotFiles : getScriptSnapshot(e, f)
    \/ \E e \in EngineIds, f \in SnapshotFiles \cup {BridgeFileName} :
           getScriptVersion(e, f)

InitSnapshots == Init /\ fs = {RootTsConfig}

SpecSnapshots == InitSnapshots /\ [][NextSnapshots]_vars

(***************************************************************************)
(* Module resolution: one project, its configuration edited, and the       *)
(* language services resolving lists of module names.                      *)
(***************************************************************************)
\* the lists of names a language service asks about
ModuleNameLists ==
    {<<LibName>>, <<ZImport, BridgeModuleName>>, <<BridgeModuleName, LibName, ZImport>>}

NextResolve ==
    \/ queryVirtualFileInfo(ZVue)
    \/ EditConfig(RootTsConfig)
    \/ \E e \in EngineIds, moduleNames \in ModuleNameLists, text \in Texts :
           \E founds \in [1..Len(moduleNames) -> BOOLEAN] :
               resolveModuleNames(e, moduleNames, UtilTs, founds, text)

InitResolve == Init /\ fs = {RootTsConfig}

SpecResolve == InitResolve /\ [][NextResolve]_vars

(***************************************************************************)
(* Versions and tracked files: the documents of the two directories        *)
(* updated, script files reported changed, and the host queries that load  *)
(* a composite file from disk.                                             *)
(***************************************************************************)
NextVersions ==
    \/ \E doc \in HostDocs : updateCurrentVueTextDocument(doc)
    \/ \E doc \in HostTemplateDocs \cup HostDocs :
           updateCurrentVirtualVueTextDocument(doc, FALSE)
    \/ \E f \in ExternalFiles : ExternalFileChanged(f)
    \/ EditConfig(ATsConfig)
    \/ \E e \in EngineIds : getScriptKind(e, ZVue, JsText)
    \/ \E e \in EngineIds : resolveModuleNames(e, <<ZImport>>, UtilTs, <<TRUE>>, TsText)

SpecVersions == InitHost /\ [][NextVersions]_vars

(***************************************************************************)
(* The service host of the script mode (modes/script/serviceHost.ts).      *)
(***************************************************************************)
\* jsDocuments.get(doc): the script region of doc (javascript.ts 58-65)
jsDocumentsGet(doc) == refreshAndGet(doc)

\* updateCurrentTextDocument (109-137): the host afterwards
updateCurrentTextDocument(h, doc) ==
    LET fileFsPath == getFileFsPath(doc.uri)
        filePath == getFilePath(doc.uri)
        h1 == IF /\ h.scriptDocs[fileFsPath] = NoDoc
                 /\ (isVueFile(fileFsPath) \/ isVirtualVueTemplateFile(fileFsPath))
              THEN [h EXCEPT !.files = @ \cup {filePath}]
              ELSE h
    IN  IF isVirtualVueTemplateFile(fileFsPath)
        THEN [h1 EXCEPT !.scriptDocs[fileFsPath] = doc,
                        !.versions[fileFsPath] = @ + 1]
        ELSE IF \/ h.currentScriptDoc = NoDoc
                \/ doc.uri # h.currentScriptDoc.uri
                \/ doc.version # h.currentScriptDoc.version
        THEN LET scriptDoc == jsDocumentsGet(doc)
                 lastDoc == h.scriptDocs[fileFsPath]
                 restart == lastDoc # NoDoc /\ scriptDoc.languageId # lastDoc.languageId
             IN  [h1 EXCEPT !.currentScriptDoc = scriptDoc,
                            !.jsLanguageService = IF restart THEN @ + 1 ELSE @,
                            !.scriptDocs[fileFsPath] = scriptDoc,
                            !.versions[fileFsPath] = @ + 1]
        ELSE h1

\* the updates recorded so far, and room for n more within the bound
Updates(h) ==
    h.versions[XVue] + h.versions[NotesMd]
        + h.versions[TemplateOf(XVue)] + h.versions[TemplateOf(NotesMd)]
CanUpdate(n) == Updates(serviceHost) + n <= MaxUpdates

\* languageServiceIncludesFile (javascript.ts 651-655): the root file names of
\* the program are the files the host lists
languageServiceIncludesFile(h, documentUri) == getFilePath(documentUri) \in h.files

(***************************************************************************)
(* The operations of the script mode (javascript.ts 89-557).  answer is    *)
(* what the language service does when queried.                            *)
(***************************************************************************)
ModeOps ==
    {"doValidation", "doComplete", "doResolve", "doHover", "doSignatureHelp",
     "findDocumentHighlight", "findDocumentSymbols", "findDefinition",
     "findReferences", "getCodeActions", "getRefactorEdits", "format"}

Outcome(op, doc, included, queried, result) ==
    [op |-> op, path |-> getFilePath(doc.uri), included |-> included,
     queried |-> queried, result |-> result, list |-> <<>>, raw |-> NoRaw,
     answer |-> "none", hover |-> NoHover]

\* the operation's result from what the language service did
QueryResult(answer) ==
    IF answer = "throws" THEN "threw"
    ELSE IF answer = "nothing" THEN "empty"
    ELSE "value"

configure(c) ==
    /\ config' = c
    /\ UNCHANGED <<serviceHost, outcome, typescriptServiceVars>>

\* update, return the default unless the file is included, then query
IncludedQuery(op, doc, answer) ==
    LET h == updateCurrentTextDocument(serviceHost, doc)
        included == languageServiceIncludesFile(h, doc.uri)
    IN  /\ CanUpdate(1)
        /\ serviceHost' = h
        /\ outcome' = IF ~included THEN Outcome(op, doc, FALSE, FALSE, "empty")
                       ELSE Outcome(op, doc, TRUE, TRUE, QueryResult(answer))
        /\ UNCHANGED <<config, typescriptServiceVars>>

\* update and query, with no test of what the language service includes
UnguardedQuery(op, doc, answer) ==
    LET h == updateCurrentTextDocument(serviceHost, doc)
        included == languageServiceIncludesFile(h, doc.uri)
    IN  /\ CanUpdate(1)
        /\ serviceHost' = h
        /\ outcome' = Outcome(op, doc, included, TRUE, QueryResult(answer))
        /\ UNCHANGED <<config, typescriptServiceVars>>

\* the diagnostics a language service reports when it has some: template
\* getSemanticDiagnostics, script getSyntacticDiagnostics and
\* getSemanticDiagnostics
RawDiagnostics(kind, answer) ==
    IF answer # "result" THEN <<>>
    ELSE IF kind = "template"
    THEN << [start |-> 2, length |-> 3, code |-> 2322, messageText |-> <<"t">>,
             reportsUnnecessary |-> FALSE] >>
    ELSE IF kind = "syntactic"
    THEN << [start |-> 0, length |-> 1, code |-> 1005, messageText |-> <<"s">>,
             reportsUnnecessary |-> FALSE] >>
    ELSE << [start |-> 4, length |-> 2, code |-> 6133, messageText |-> <<"u", "v">>,
             reportsUnnecessary |-> TRUE],
            [start |-> 1, length |-> 1, code |-> 2304, messageText |-> <<"n">>,
             reportsUnnecessary |-> FALSE] >>

\* ts.flattenDiagnosticMessageText(diag.messageText, '\n')
RECURSIVE flattenDiagnosticMessageText(_)
flattenDiagnosticMessageText(messageText) ==
    IF Len(messageText) = 1 THEN messageText[1]
    ELSE messageText[1] \o "\n" \o flattenDiagnosticMessageText(Tail(messageText))

\* convertRange(document, span)
convertRange(span) == [start |-> span.start, end |-> span.start + span.length]

\* rawTemplateDiagnostics.map(diag => ...)
TemplateDiagnostic(diag) ==
    [range |-> convertRange(diag), severity |-> "Error",
     message |-> flattenDiagnosticMessageText(diag.messageText),
     tags |-> <<>>, code |-> diag.code, source |-> "Vetur"]

\* rawScriptDiagnostics.map(diag => ...)
ScriptDiagnostic(diag) ==
    [range |-> convertRange(diag), severity |-> "Error",
     message |-> flattenDiagnosticMessageText(diag.messageText),
     tags |-> IF diag.reportsUnnecessary THEN <<"Unnecessary">> ELSE <<>>,
     code |-> diag.code, source |-> "Vetur"]

\* Variant of MergeDiagnostics with the script diagnostics first.
MergeDiagnosticsScriptFirst(templateDiags, scriptDiags) == scriptDiags \o templateDiags

\* [...templateDiags, ...scriptDiags]
MergeDiagnostics(templateDiags, scriptDiags) == templateDiags \o scriptDiags

\* Variant of TemplateUpdate that updates the template document in any case.
TemplateUpdateAlways(h, enabledTemplateValidation, templateDoc) ==
    updateCurrentTextDocument(h, templateDoc)

\* getTemplateDiagnostics (115-131): the host after its update, none made
\* when the setting is off
TemplateUpdate(h, enabledTemplateValidation, templateDoc) ==
    IF enabledTemplateValidation
    THEN updateCurrentTextDocument(h, templateDoc)
    ELSE h

\* doValidation (110-180): template diagnostics, then script diagnostics
doValidation(doc, templateAnswer, scriptAnswer) ==
    IF ~config.vetur
    THEN /\ outcome' = Outcome("doValidation", doc,
                                languageServiceIncludesFile(serviceHost, doc.uri),
                                FALSE, "threw")
         /\ UNCHANGED <<config, serviceHost, typescriptServiceVars>>
    ELSE LET templateDoc == templateDocOf(doc)
             h1 == TemplateUpdate(serviceHost, config.templateTypeCheck, templateDoc)
             templateQueried ==
                 /\ config.templateTypeCheck
                 /\ languageServiceIncludesFile(h1, templateDoc.uri)
             templateThrew == templateQueried /\ templateAnswer = "throws"
             h2 == updateCurrentTextDocument(h1, doc)
             included == languageServiceIncludesFile(h2, doc.uri)
             results == (IF templateQueried THEN {QueryResult(templateAnswer)} ELSE {})
                            \cup (IF included THEN {QueryResult(scriptAnswer)} ELSE {})
             raw == [template |-> IF templateQueried
                                  THEN RawDiagnostics("template", templateAnswer)
                                  ELSE <<>>,
                     syntactic |-> IF included
                                   THEN RawDiagnostics("syntactic", scriptAnswer)
                                   ELSE <<>>,
                     semantic |-> IF included
                                  THEN RawDiagnostics("semantic", scriptAnswer)
                                  ELSE <<>>,
                     enabledTemplateValidation |-> config.templateTypeCheck]
             templateDiags ==
                 [i \in 1..Len(raw.template) |-> TemplateDiagnostic(raw.template[i])]
             rawScriptDiagnostics == raw.syntactic \o raw.semantic
             scriptDiags ==
                 [i \in 1..Len(rawScriptDiagnostics) |->
                     ScriptDiagnostic(rawScriptDiagnostics[i])]
         IN  /\ CanUpdate(2)
             /\ serviceHost' = IF templateThrew THEN h1 ELSE h2
             /\ outcome' =
                    IF templateThrew
                    THEN Outcome("doValidation", doc,
                                 languageServiceIncludesFile(h1, doc.uri), FALSE, "threw")
                    ELSE IF "threw" \in results
                    THEN Outcome("doValidation", doc, included, included, "threw")
                    ELSE [Outcome("doValidation", doc, included, included,
                                  IF "value" \in results THEN "value" ELSE "empty")
                            EXCEPT !.list = MergeDiagnostics(templateDiags, scriptDiags),
                                   !.raw = raw]
             /\ UNCHANGED <<config, typescriptServiceVars>>

\* doComplete (181-222): nothing is asked after a non-script trigger character
doComplete(doc, nonScriptTrigger, answer) ==
    LET h == updateCurrentTextDocument(serviceHost, doc)
        included == languageServiceIncludesFile(h, doc.uri)
    IN  /\ CanUpdate(1)
        /\ serviceHost' = h
        /\ outcome' =
               IF ~included THEN Outcome("doComplete", doc, FALSE, FALSE, "empty")
               ELSE IF nonScriptTrigger THEN Outcome("doComplete", doc, TRUE, FALSE, "empty")
               ELSE Outcome("doComplete", doc, TRUE, TRUE, QueryResult(answer))
        /\ UNCHANGED <<config, typescriptServiceVars>>

\* doResolve (223-262): getFormatCodeSettings(config) is evaluated for the query
doResolve(doc, answer) ==
    LET h == updateCurrentTextDocument(serviceHost, doc)
        included == languageServiceIncludesFile(h, doc.uri)
    IN  /\ CanUpdate(1)
        /\ serviceHost' = h
        /\ outcome' =
               IF ~included THEN Outcome("doResolve", doc, FALSE, FALSE, "empty")
               ELSE IF ~config.vetur THEN Outcome("doResolve", doc, TRUE, FALSE, "threw")
               ELSE Outcome("doResolve", doc, TRUE, TRUE, QueryResult(answer))
        /\ UNCHANGED <<config, typescriptServiceVars>>

\* service.getQuickInfoAtPosition(fileFsPath, offset): undefined when the
\* language service has nothing to report there
NoInfo == [textSpan |-> [start |-> -1, length |-> 0], displayParts |-> <<>>,
           documentation |-> <<>>]
getQuickInfoAtPosition(answer) ==
    IF answer = "result"
    THEN [textSpan |-> [start |-> 1, length |-> 2], displayParts |-> <<"const x", ": number">>,
          documentation |-> <<"doc">>]
    ELSE NoInfo

\* tsModule.displayPartsToString(parts)
RECURSIVE displayPartsToString(_)
displayPartsToString(parts) ==
    IF parts = <<>> THEN "" ELSE Head(parts) \o displayPartsToString(Tail(parts))

\* { contents: [] }
EmptyHover == [range |-> NoRange, contents |-> <<>>]

\* doHover (263-284)
doHover(doc, answer) ==
    LET h == updateCurrentTextDocument(serviceHost, doc)
        included == languageServiceIncludesFile(h, doc.uri)
        info == getQuickInfoAtPosition(answer)
        display == displayPartsToString(info.displayParts)
        documentation == displayPartsToString(info.documentation)
        markedContents ==
            (IF documentation # "" THEN <<documentation, "\n">> ELSE <<>>)
                \o <<display>>
        hover == IF info # NoInfo
                 THEN [range |-> convertRange(info.textSpan), contents |-> markedContents]
                 ELSE EmptyHover
    IN  /\ CanUpdate(1)
        /\ serviceHost' = h
        /\ outcome' =
               IF ~included
               THEN [Outcome("doHover", doc, FALSE, FALSE, "empty")
                       EXCEPT !.hover = EmptyHover]
               ELSE IF answer = "throws"
               THEN [Outcome("doHover", doc, TRUE, TRUE, "threw") EXCEPT !.answer = answer]
               ELSE [Outcome("doHover", doc, TRUE, TRUE, QueryResult(answer))
                       EXCEPT !.answer = answer, !.hover = hover]
        /\ UNCHANGED <<config, typescriptServiceVars>>

doSignatureHelp(doc, answer) == IncludedQuery("doSignatureHelp", doc, answer)
findDocumentHighlight(doc, answer) == IncludedQuery("findDocumentHighlight", doc, answer)
findDocumentSymbols(doc, answer) == IncludedQuery("findDocumentSymbols", doc, answer)
findDefinition(doc, answer) == IncludedQuery("findDefinition", doc, answer)
findReferences(doc, answer) == IncludedQuery("findReferences", doc, answer)

\* ts.getSupportedCodeFixes().map(Number).filter(x => !isNaN(x))
supportedCodeFixCodes == {2304, 6133}

\* context.diagnostics.map(d => +d.code!): the codes a request can carry
DiagnosticCodeLists == {<<>>, <<6133>>, <<9999>>, <<9999, 6133, 2304>>}

\* codes.filter(c => supportedCodeFixCodes.has(c))
RECURSIVE FilterSupported(_)
FilterSupported(codes) ==
    IF codes = <<>> THEN <<>>
    ELSE (IF Head(codes) \in supportedCodeFixCodes THEN <<Head(codes)>> ELSE <<>>)
            \o FilterSupported(Tail(codes))

\* service.getCodeFixesAtPosition(fileName, start, end, codes, ...): a fix for
\* each code it is asked about, when it has fixes
getCodeFixesAtPosition(codes, answer) ==
    IF answer # "result" THEN <<>>
    ELSE [i \in 1..Len(codes) |->
             [fixName |-> "unusedIdentifier", errorCode |-> codes[i],
              description |-> IF codes[i] = 6133 THEN "Remove unused declaration"
                              ELSE "Add missing import"]]

\* service.getApplicableRefactors(fileName, textRange, preferences)
getApplicableRefactors(answer) ==
    IF answer # "result" THEN <<>>
    ELSE << [name |-> "Extract Symbol", description |-> "Extract function",
             inlineable |-> FALSE,
             actions |-> << [name |-> "function_scope_0",
                             description |-> "Extract to inner function"],
                            [name |-> "function_scope_1",
                             description |-> "Extract to function in module scope"] >>],
            [name |-> "Convert export", description |-> "Convert default export",
             inlineable |-> TRUE, actions |-> <<>>] >>

\* createApplyCodeActionCommand(fix.description, uriTextEditMapping)
createApplyCodeActionCommand(title) ==
    [title |-> title, command |-> "vetur.applyWorkspaceEdits"]

\* collectQuickFixCommands(fixes, service, result)
collectQuickFixCommands(fixes, result) ==
    result \o [i \in 1..Len(fixes) |-> createApplyCodeActionCommand(fixes[i].description)]

\* the actions of one refactoring
RefactorActions(refactoring) ==
    IF refactoring.inlineable
    THEN << [refactorName |-> refactoring.name, actionName |-> refactoring.name,
             description |-> refactoring.description] >>
    ELSE [i \in 1..Len(refactoring.actions) |->
             [refactorName |-> refactoring.name,
              actionName |-> refactoring.actions[i].name,
              description |-> refactoring.actions[i].description]]

RECURSIVE AllRefactorActions(_)
AllRefactorActions(refactorings) ==
    IF refactorings = <<>> THEN <<>>
    ELSE RefactorActions(Head(refactorings)) \o AllRefactorActions(Tail(refactorings))

\* collectRefactoringCommands(refactorings, fileName, ..., result)
collectRefactoringCommands(refactorings, result) ==
    LET actions == AllRefactorActions(refactorings)
    IN  result \o [i \in 1..Len(actions) |->
                      [title |-> actions[i].description,
                       command |-> "vetur.chooseTypeScriptRefactoring"]]

\* Variant of CodeActionCommands that collects the refactorings first.
CodeActionCommandsRefactoringsFirst(fixes, refactorings) ==
    collectQuickFixCommands(fixes, collectRefactoringCommands(refactorings, <<>>))

\* result after collectQuickFixCommands and collectRefactoringCommands
CodeActionCommands(fixes, refactorings) ==
    collectRefactoringCommands(refactorings, collectQuickFixCommands(fixes, <<>>))

\* getCodeActions (438-474)
getCodeActions(doc, codes, answer) ==
    LET h == updateCurrentTextDocument(serviceHost, doc)
        included == languageServiceIncludesFile(h, doc.uri)
        fixableDiagnosticCodes == FilterSupported(codes)
        fixes == getCodeFixesAtPosition(fixableDiagnosticCodes, answer)
        refactorings == getApplicableRefactors(answer)
    IN  /\ CanUpdate(1)
        /\ serviceHost' = h
        /\ outcome' =
               IF ~config.vetur
               THEN Outcome("getCodeActions", doc, included, FALSE, "threw")
               ELSE IF answer = "throws"
               THEN Outcome("getCodeActions", doc, included, TRUE, "threw")
               ELSE [Outcome("getCodeActions", doc, included, TRUE, QueryResult(answer))
                       EXCEPT !.list = CodeActionCommands(fixes, refactorings),
                              !.raw = [requested |-> codes,
                                       forwarded |-> fixableDiagnosticCodes,
                                       fixes |-> fixes,
                                       refactorings |-> refactorings]]
        /\ UNCHANGED <<config, typescriptServiceVars>>

\* getRefactorEdits (475-491)
getRefactorEdits(doc, answer) == UnguardedQuery("getRefactorEdits", doc, answer)

\* format (492-547)
format(doc, answer) ==
    LET h == updateCurrentTextDocument(serviceHost, doc)
        included == languageServiceIncludesFile(h, doc.uri)
    IN  /\ CanUpdate(1)
        /\ serviceHost' = h
        /\ outcome' =
               IF ~config.vetur
               THEN Outcome("format", doc, included, FALSE, "threw")
               ELSE IF config.defaultFormatter = "none"
               THEN Outcome("format", doc, included, FALSE, "empty")
               ELSE IF config.defaultFormatter = "prettier"
               THEN Outcome("format", doc, included, FALSE, "value")
               ELSE Outcome("format", doc, included, TRUE, QueryResult(answer))
        /\ UNCHANGED <<config, typescriptServiceVars>>

(***************************************************************************)
(* doHover of the style mode (modes/style/index.ts 97-100).                *)
(***************************************************************************)
\* NULL_HOVER of ../nullMode
NULL_HOVER == [range |-> NoRange, contents |-> <<>>]

\* languageService.doHover(embedded, position, stylesheet): null when the
\* style language service has nothing to report there
cssDoHover(answer) ==
    IF answer = "result"
    THEN [range |-> [start |-> 0, end |-> 5], contents |-> <<"color">>]
    ELSE NoHover

\* Variant of OrNullHover that passes the answer on as it is.
OrWhatever(hover) == hover

\* hover || NULL_HOVER
OrNullHover(hover) == IF hover = NoHover THEN NULL_HOVER ELSE hover

styleDoHover(doc, answer) ==
    /\ outcome' =
           IF answer = "throws"
           THEN [Outcome("style.doHover", doc, TRUE, TRUE, "threw")
                   EXCEPT !.answer = answer]
           ELSE [Outcome("style.doHover", doc, TRUE, TRUE, QueryResult(answer))
                   EXCEPT !.answer = answer, !.hover = OrNullHover(cssDoHover(answer))]
    /\ UNCHANGED <<config, serviceHost, typescriptServiceVars>>

NextMode ==
    \/ \E c \in Configs : configure(c)
    \/ \E doc \in ModeDocs, t \in Answers, a \in Answers : doValidation(doc, t, a)
    \/ \E doc \in ModeDocs, b \in BOOLEAN, a \in Answers : doComplete(doc, b, a)
    \/ \E doc \in ModeDocs, a \in Answers : doResolve(doc, a)
    \/ \E doc \in ModeDocs, a \in Answers : doHover(doc, a)
    \/ \E doc \in ModeDocs, a \in Answers : doSignatureHelp(doc, a)
    \/ \E doc \in ModeDocs, a \in Answers : findDocumentHighlight(doc, a)
    \/ \E doc \in ModeDocs, a \in Answers : findDocumentSymbols(doc, a)
    \/ \E doc \in ModeDocs, a \in Answers : findDefinition(doc, a)
    \/ \E doc \in ModeDocs, a \in Answers : findReferences(doc, a)
    \/ \E doc \in ModeDocs, codes \in DiagnosticCodeLists, a \in Answers :
           getCodeActions(doc, codes, a)
    \/ \E doc \in ModeDocs, a \in Answers : getRefactorEdits(doc, a)
    \/ \E doc \in ModeDocs, a \in Answers : format(doc, a)
    \/ \E doc \in ModeDocs, a \in Answers : styleDoHover(doc, a)

InitMode == Init /\ fs = {}

SpecMode == InitMode /\ [][NextMode]_vars


(***************************************************************************)
(* Projects of configuration files whose text may not be JSON.             *)
(***************************************************************************)
NextConfig ==
    \/ \E fileName \in VueFiles : queryVirtualFileInfo(fileName)
    \/ \E c \in {RootTsConfig, ATsConfig} : WriteInvalidConfig(c)
    \/ \E c \in {RootTsConfig, ATsConfig} : CreateConfig(c)
    \/ \E c \in {RootTsConfig, ATsConfig} : EditConfig(c)
    \/ \E c \in {RootTsConfig, ATsConfig} : RemoveConfig(c)

InitConfig == Init /\ fs \subseteq {RootTsConfig}

SpecConfig == InitConfig /\ [][NextConfig]_vars

(***************************************************************************)
(* The virtual file system the module resolver reads through               *)
(* (getVueSys, modes/script/serviceHost.ts 23-62).                         *)
(***************************************************************************)
\* a composite file of a dependency, below node_modules
NmVue == << <<"w">>, <<"node_modules">>, <<"lib">>, <<"c", "vue">> >>
\* what can be on disk: composite files, a plain script, and files that
\* really carry the name of a virtual path
SysDiskPaths ==
    {XVue, UtilTs, NmVue, AddExt(XVue, "ts"), AddExt(NmVue, "ts"),
     AddExt(ZVue, "template")}
\* the paths the resolver asks about
SysPaths ==
    SysDiskPaths \cup
    {ZVue, AddExt(ZVue, "ts"), AddExt(XVue, "template"), AddExt(NmVue, "template"),
     AddExt(UtilTs, "template"), AddExt(AddExt(XVue, "template"), "ts"),
     AddExt(AddExt(XVue, "ts"), "template")}

\* Variant of isVirtualVueFile that takes every virtual suffix.
isVirtualVueFileAnySuffix(path) ==
    \/ EndsWithExts(path, <<"vue", "ts">>) /\ ~IncludesNodeModules(path)
    \/ EndsWithExts(path, <<"vue", "template">>)

\* Variant of isVirtualVueFile that looks at the suffix alone.
isVirtualVueFileBySuffix(path) == EndsWithExts(path, <<"vue", "ts">>)

\* path.endsWith('.vue.ts') && !path.includes('node_modules')
isVirtualVueFile(path) ==
    EndsWithExts(path, <<"vue", "ts">>) /\ ~IncludesNodeModules(path)

\* path.slice(0, -'.template'.length)
StripTemplate(path) ==
    Append(getDirectoryName(path), SubSeq(path[Len(path)], 1, Len(path[Len(path)]) - 1))

\* tsModule.sys.fileExists(path)
sysFileExists(disk, path) == path \in disk

\* vueSys.fileExists(path)
fileExists(disk, path) ==
    IF isVirtualVueFile(path) THEN sysFileExists(disk, StripTs(path))
    ELSE IF isVirtualVueTemplateFile(path) THEN sysFileExists(disk, StripTemplate(path))
    ELSE sysFileExists(disk, path)

\* the suffix tests one call evaluates, in the order of the if statements
SuffixChecks(path) ==
    IF isVirtualVueFile(path) THEN <<"ts">> ELSE <<"ts", "template">>

\* the branch of the if statements that handles path
SysBranch(path) ==
    IF isVirtualVueFile(path) THEN "script"
    ELSE IF isVirtualVueTemplateFile(path) THEN "template"
    ELSE "other"

\* the record of one call on the virtual file system: its result, the suffix
\* tests made and the branch taken
SysCall(op, path, result) ==
    [Call(op, path, NoDoc, NoDoc, NoProject, NoProject)
        EXCEPT !.results = <<result, SuffixChecks(path), SysBranch(path)>>]

VueSysFileExists(path) ==
    /\ lastCall' = SysCall("fileExists", path, fileExists(fs, path))
    /\ UNCHANGED <<modeVars, fs, cfgRev, cfgJson, sysText, registryVars, hostVars, invalidated,
                   registeredVia>>

\* what tsModule.sys.readFile yields for a file that is not there
UndefinedText == [lang |-> "undefined", body |-> "", template |-> ""]

\* tsModule.sys.readFile(path, encoding); text is what the file holds
sysReadFile(disk, text, path) == IF path \in disk THEN text ELSE UndefinedText

\* vueSys.readFile(path, encoding)
readFile(disk, text, path) ==
    IF isVirtualVueFile(path)
    THEN LET fileText == sysReadFile(disk, text, StripTs(path))
         IN  IF fileText \notin {UndefinedText, EmptyText}
             THEN parseVueScript(fileText) ELSE fileText
    ELSE IF isVirtualVueTemplateFile(path)
    THEN sysReadFile(disk, text, StripTemplate(path))
    ELSE sysReadFile(disk, text, path)

VueSysReadFile(path, text) ==
    /\ lastCall' = [SysCall("readFile", path, readFile(fs, text, path))
                      EXCEPT !.doc = TextDocumentCreate(Uri(path), "vue", 0, text)]
    /\ UNCHANGED <<modeVars, fs, cfgRev, cfgJson, sysText, registryVars, hostVars, invalidated,
                   registeredVia>>

\* tsModule.sys.realpath(path): with linked, directory a is a symbolic link to
\* directory b
sysRealpath(linked, path) ==
    IF linked /\ Len(path) > 0 /\ getDirectoryName(path) = DirA
    THEN Append(DirB, path[Len(path)])
    ELSE path

\* vueSys.realpath(path) (48-59)
realpath(linked, path) ==
    IF isVirtualVueFile(path)
    THEN AddExt(sysRealpath(linked, StripTs(path)), "ts")
    ELSE IF isVirtualVueTemplateFile(path)
    THEN AddExt(sysRealpath(linked, StripTemplate(path)), "ts")
    ELSE sysRealpath(linked, path)

VueSysRealpath(path, linked) ==
    /\ lastCall' = [SysCall("realpath", path, realpath(linked, path))
                      EXCEPT !.args = <<linked>>]
    /\ UNCHANGED <<modeVars, fs, cfgRev, cfgJson, sysText, registryVars, hostVars, invalidated,
                   registeredVia>>

\* a file appears on disk, or disappears from it
SysFileCreated(f) ==
    /\ f \notin fs
    /\ fs' = fs \cup {f}
    /\ lastCall' = Call("fileCreated", f, NoDoc, NoDoc, NoProject, NoProject)
    /\ UNCHANGED <<modeVars, cfgRev, cfgJson, sysText, registryVars, hostVars, invalidated,
                   registeredVia>>

SysFileRemoved(f) ==
    /\ f \in fs
    /\ fs' = fs \ {f}
    /\ lastCall' = Call("fileRemoved", f, NoDoc, NoDoc, NoProject, NoProject)
    /\ UNCHANGED <<modeVars, cfgRev, cfgJson, sysText, registryVars, hostVars, invalidated,
                   registeredVia>>

NextSys ==
    \/ \E f \in SysDiskPaths : SysFileCreated(f)
    \/ \E f \in SysDiskPaths : SysFileRemoved(f)
    \/ \E path \in SysPaths : VueSysFileExists(path)
    \/ \E path \in SysPaths, text \in DiskTexts : VueSysReadFile(path, text)
    \/ \E path \in SysPaths, linked \in BOOLEAN : VueSysRealpath(path, linked)

InitSys == Init /\ fs = {}

SpecSys == InitSys /\ [][NextSys]_vars


LookupOps ==
    {"updateCurrentVueTextDocument", "updateCurrentVirtualVueTextDocument",
     "queryVirtualFileInfo"}

\* C1: two attached directories have the same project exactly when their
\* nearest configuration file is the same (none counts as one).
C1_SameConfigSameProject ==
    \A d1 \in Dirs, d2 \in Dirs :
        (directoryToProjects[d1] # NoProject /\ directoryToProjects[d2] # NoProject) =>
            ((getNearestConfigFile(Disk, d1) = getNearestConfigFile(Disk, d2))
                <=> (directoryToProjects[d1] = directoryToProjects[d2]))

\* C2: the first lookup of a directory after the configuration of its project
\* was updated or deleted returns another project instance, and no module
\* resolution cached by the old one is left in the cache.
C2_InvalidationGivesNewProject ==
    (lastCall.op \in LookupOps /\ lastCall.was # NoProject) =>
        /\ lastCall.project # lastCall.was
        /\ \A k \in ModuleKeys : moduleResolutionCache[k].by # lastCall.was

\* C10: every attachment is to the project registered for the configuration
\* file that is nearest to the directory now.
C10_AttachmentFollowsNearestConfig ==
    \A d \in Dirs :
        directoryToProjects[d] # NoProject =>
            directoryToProjects[d] =
                projectsLanguageServices[getNearestConfigFile(Disk, d)]

\* C3: a request carrying an older version of a document than the one
\* recorded for its file leaves the recorded script document and the file
\* version as they were.
C3_StaleRequestDiscarded ==
    [][(/\ lastCall'.op = "updateCurrentVueTextDocument"
        /\ lastCall'.before # NoDoc
        /\ lastCall'.doc.version < lastCall'.before.version)
        => /\ localScriptRegionDocuments'[lastCall'.path] = lastCall'.before
           /\ versions'[lastCall'.path] = versions[lastCall'.path]]_vars

\* C4: the scriptDoc updateCurrentVueTextDocument returns has the uri and the
\* version of the document passed in.
C4_ScriptDocOfRequestedVersion ==
    lastCall.op = "updateCurrentVueTextDocument" =>
        /\ currentScriptDoc.uri = lastCall.doc.uri
        /\ currentScriptDoc.version = lastCall.doc.version

\* a request at a newer version than the one recorded for the file was answered
C4_NewerVersionRequested ==
    /\ lastCall.op = "updateCurrentVueTextDocument"
    /\ lastCall.before # NoDoc
    /\ lastCall.before.uri = lastCall.doc.uri
    /\ lastCall.before.version >= 1
    /\ lastCall.before.version < lastCall.doc.version

\* the projects registered for a configuration file (or for none)
RegisteredProjects == {projectsLanguageServices[k] : k \in ConfigKeys} \ {NoProject}

\* C5: the composite and virtual files the script service of a project is
\* given were registered through that project.
C5_NoFileOfAnotherProject ==
    \A p \in RegisteredProjects :
        \A f \in getScriptFileNames(projects[p].jsLanguageService) \cap DocFiles :
            p \in registeredVia[f]

\* C8: no step removes a path from scriptFileNameSet.
C8_TrackedFilesOnlyGrow == [][scriptFileNameSet \subseteq scriptFileNameSet']_vars

\* a tracked external file was reported deleted while a composite file is tracked
C8_DeletionOfTrackedFile ==
    /\ lastCall.op = "deleteExternalDocument"
    /\ lastCall.path = UtilTs
    /\ UtilTs \in scriptFileNameSet
    /\ scriptFileNameSet \cap VueFiles # {}

\* the options of the project registered for k differ before and after the step
OptionsReplaced(k) ==
    /\ projectsLanguageServices[k] # NoProject
    /\ projectsLanguageServices'[k] = projectsLanguageServices[k]
    /\ projects'[projectsLanguageServices[k]].options
           # projects[projectsLanguageServices[k]].options

C6_EveryOperationReturns ==
    outcome.op \in ModeOps => outcome.result # "threw"

\* C7: an operation on a document whose path is not among the root files of
\* the program returns its empty value and asks the language service nothing.
C7_NotIncludedGivesEmpty ==
    (outcome.op \in ModeOps /\ ~outcome.included /\ outcome.result # "threw") =>
        (outcome.result = "empty" /\ ~outcome.queried)


\* the configuration file met first when walking upward from dir: the
\* tsconfig.json or jsconfig.json of dir itself, else that of its parent
RECURSIVE NearestWalkingUpward(_)
NearestWalkingUpward(dir) ==
    IF Append(dir, TsConfigName) \in fs THEN Append(dir, TsConfigName)
    ELSE IF Append(dir, JsConfigName) \in fs THEN Append(dir, JsConfigName)
    ELSE IF Len(dir) = 0 THEN Undefined
    ELSE NearestWalkingUpward(getDirectoryName(dir))

\* C11: a lookup that attaches a directory attaches it to the project of the
\* configuration file met first when walking upward from the directory,
\* tsconfig.json or jsconfig.json alike.
C11_LookupSelectsNearestOfEitherName ==
    [][\A d \in Dirs :
          (directoryToProjects[d] = NoProject /\ directoryToProjects'[d] # NoProject) =>
              directoryToProjects'[d] =
                  projectsLanguageServices'[NearestWalkingUpward(d)]]_vars

\* C12: right after updateExternalDocument(f) for a file the workspace
\* configuration does not exclude, no module resolution is cached with f as
\* the containing file, so the next resolveModuleNames for f resolves afresh.
C12_ChangedFileHasNoCachedResolution ==
    (/\ lastCall.op = "updateExternalDocument"
     /\ lastCall.path \in ContainingFiles
     /\ ~isExcludedFile(lastCall.path)) =>
        \A name \in ModuleNames :
            moduleResolutionCache[<<name, lastCall.path>>] = NoResolution

\* C13: every resolution a resolveModuleNames call returns (the bridge module
\* aside) was computed by the project of the calling engine host, under the
\* compiler options that project has now.
C13_ResolutionOfCallingProject ==
    lastCall.op = "resolveModuleNames" =>
        \A i \in 1..Len(lastCall.results) :
            LET res == lastCall.results[i]
            IN  (res # NoResolution /\ res.resolvedFileName # BridgeFileName) =>
                    /\ res.by = lastCall.project
                    /\ res.under.base = projects[lastCall.project].options

\* C14: a document update increments the version of the file exactly when
\* the document passed differs in uri or version from the one recorded for
\* that file, and leaves the project version alone when it does not differ.
C14_VersionBumpedOnlyOnChange ==
    [][lastCall'.op \in {"updateCurrentVueTextDocument",
                         "updateCurrentVirtualVueTextDocument"} =>
          LET f == lastCall'.path
              same == /\ lastCall'.before # NoDoc
                      /\ lastCall'.before.uri = lastCall'.doc.uri
                      /\ lastCall'.before.version = lastCall'.doc.version
          IN  IF same
              THEN versions'[f] = versions[f] /\ projectVersion' = projectVersion
              ELSE versions'[f] = versions[f] + 1]_vars

TemplateTransformText(text) ==
    [lang |-> "typescript", body |-> text.template, template |-> ""]

\* C16: reading a '.vue.ts' path yields the script region of the file without
\* the suffix, reading a '.vue.template' path yields the template-transform
\* text of that file, and a missing or empty file yields the missing or empty
\* value.
C16_ReadYieldsVirtualDocumentText ==
    lastCall.op = "readFile" =>
        LET path == lastCall.path
            text == lastCall.doc.text
            underlying == getDirectoryName(path)
                            \o << SubSeq(path[Len(path)], 1, Len(path[Len(path)]) - 1) >>
            isScript == EndsWithExts(path, <<"vue", "ts">>) /\ ~IncludesNodeModules(path)
            isTemplate == EndsWithExts(path, <<"vue", "template">>)
            open == localScriptRegionDocuments[underlying]
        IN  (isScript \/ isTemplate) =>
                lastCall.results[1] =
                    IF underlying \notin fs THEN UndefinedText
                    ELSE IF text = EmptyText THEN EmptyText
                    ELSE IF isTemplate THEN TemplateTransformText(text)
                    ELSE IF underlying \in DocFiles /\ open # NoDoc THEN open.text
                    ELSE [lang |-> text.lang, body |-> text.body, template |-> ""]

SysOps == {"fileExists", "readFile"}

\* C17 as stated: every call on the virtual file system tests the template
\* suffix first, and a path with the template suffix is never handled as a
\* virtual script path.
C17_TemplateSuffixCheckedFirst ==
    lastCall.op \in SysOps =>
        /\ lastCall.results[2][1] = "template"
        /\ EndsWithExts(lastCall.path, <<"vue", "template">>) =>
               lastCall.results[3] # "script"

\* C17: every call tests the script suffix first and the template suffix
\* only when that fails; no path passes both tests, so the branch taken is
\* the one the opposite order of the tests would take.
C17_ClassificationIndependentOfOrder ==
    lastCall.op \in SysOps =>
        /\ lastCall.results[2][1] = "ts"
        /\ ~(isVirtualVueFile(lastCall.path) /\ isVirtualVueTemplateFile(lastCall.path))
        /\ lastCall.results[3] =
               IF isVirtualVueTemplateFile(lastCall.path) THEN "template"
               ELSE IF isVirtualVueFile(lastCall.path) THEN "script"
               ELSE "other"

\* a path with the template suffix was handled, after the script test failed
C17_TemplatePathHandled ==
    /\ lastCall.op \in SysOps
    /\ lastCall.path = AddExt(XVue, "template")
    /\ lastCall.results[2] = <<"ts", "template">>
    /\ lastCall.results[3] = "template"

\* C18: every lookup yields a project whose two language services are in
\* use, and the project of a configuration file that is missing or whose
\* text is not JSON has the options of the default configuration.
C18_DefaultConfigurationWhenUnreadable ==
    lastCall.op \in LookupOps =>
        LET p == lastCall.project
        IN  /\ p # NoProject
            /\ projects[p] # NullProject
            /\ {projects[p].jsLanguageService,
                projects[p].templateLanguageService} \subseteq LiveEngines
            /\ \A k \in ConfigKeys :
                   (projectsLanguageServices[k] = p /\ (k \notin fs \/ ~cfgJson[k])) =>
                       projects[p].options.configJson = "defaultIgnorePatterns"

\* a lookup was answered with the project of a configuration file that is on
\* disk with text that is not JSON
C18_ProjectOfUnparsableConfig ==
    /\ lastCall.op \in LookupOps
    /\ \E k \in ConfigPaths :
           /\ k \in fs
           /\ ~cfgJson[k]
           /\ projectsLanguageServices[k] = lastCall.project

\* the codes and the ranges of a list of engine diagnostics, in order
CodesAndSpans(raw) ==
    [i \in 1..Len(raw) |-> <<raw[i].code, raw[i].start, raw[i].start + raw[i].length>>]

\* C19: the list doValidation returns has one diagnostic for each diagnostic
\* of the language services and no other, those of the template first, then
\* the syntactic and then the semantic ones of the script.
C19_TemplateThenScriptDiagnostics ==
    (outcome.op = "doValidation" /\ outcome.result # "threw") =>
        /\ [i \in 1..Len(outcome.list) |->
               <<outcome.list[i].code, outcome.list[i].range.start,
                 outcome.list[i].range.end>>]
             = CodesAndSpans(outcome.raw.template) \o CodesAndSpans(outcome.raw.syntactic)
                 \o CodesAndSpans(outcome.raw.semantic)
        /\ \A i \in 1..Len(outcome.list) :
               outcome.list[i].source = "Vetur" /\ outcome.list[i].severity = "Error"

\* doValidation returned diagnostics of the template and of the script
C19_BothSourcesReported ==
    /\ outcome.op = "doValidation"
    /\ outcome.result = "value"
    /\ outcome.raw.template # <<>>
    /\ outcome.raw.syntactic # <<>>
    /\ outcome.raw.semantic # <<>>

\* C20: a hover for which the language service has nothing to report, or
\* is not asked, does not throw; the script mode returns a hover with empty
\* contents and the style mode returns NULL_HOVER.
C20_NothingToReportGivesEmptyHover ==
    /\ (outcome.op = "doHover" /\ outcome.answer \in {"none", "nothing"}) =>
           /\ outcome.result = "empty"
           /\ outcome.hover.contents = <<>>
    /\ (outcome.op = "style.doHover" /\ outcome.answer = "nothing") =>
           /\ outcome.result = "empty"
           /\ outcome.hover = NULL_HOVER

\* the style mode answered a hover for which its language service had
\* nothing to report
C20_StyleHoverWithNothingToReport ==
    /\ outcome.op = "style.doHover"
    /\ outcome.answer = "nothing"
    /\ outcome.queried

C22_QuickFixesTitledAndFirst ==
    (outcome.op = "getCodeActions" /\ outcome.result # "threw") =>
        LET fixes == outcome.raw.fixes
            n == Len(fixes)
        IN  /\ \A i \in 1..Len(outcome.raw.forwarded) :
                   /\ outcome.raw.forwarded[i] \in {2304, 6133}
                   /\ \E j \in 1..Len(outcome.raw.requested) :
                          outcome.raw.requested[j] = outcome.raw.forwarded[i]
            /\ Len(outcome.list) >= n
            /\ \A i \in 1..n :
                   /\ outcome.list[i].title = fixes[i].description
                   /\ outcome.list[i].command = "vetur.applyWorkspaceEdits"
            /\ \A i \in (n + 1)..Len(outcome.list) :
                   outcome.list[i].command = "vetur.chooseTypeScriptRefactoring"

\* getCodeActions returned commands for fixes and for refactorings, after a
\* request that carried a code without a supported fix
C22_FixesAndRefactoringsReturned ==
    /\ outcome.op = "getCodeActions"
    /\ outcome.result = "value"
    /\ Len(outcome.raw.fixes) >= 2
    /\ Len(outcome.raw.requested) > Len(outcome.raw.forwarded)
    /\ Len(outcome.list) > Len(outcome.raw.fixes)

\* the directories attached to project p
AttachedTo(p) == {d \in Dirs : directoryToProjects[d] = p}

\* C23: every attached directory is attached to a registered project whose
\* two language services are not disposed, and a step that unregisters a
\* project leaves no directory attached to it.
C23_AttachmentsToLiveRegisteredProjects ==
    /\ [](\A d \in Dirs :
             directoryToProjects[d] # NoProject =>
                 /\ directoryToProjects[d] \in RegisteredProjects
                 /\ projects[directoryToProjects[d]].jsLanguageService \notin disposed
                 /\ projects[directoryToProjects[d]].templateLanguageService \notin disposed)
    /\ [][\A p \in RegisteredProjects :
              p \notin RegisteredProjects' =>
                  /\ \A d \in Dirs : directoryToProjects'[d] # p
                  /\ projects[p].jsLanguageService \in disposed'
                  /\ projects[p].templateLanguageService \in disposed']_vars

\* the configuration file of a project with an attached directory was deleted
C23_AttachedProjectRemoved ==
    /\ lastCall.op = "deleteExternalDocument"
    /\ lastCall.project # NoProject
    /\ lastCall.project \notin RegisteredProjects
    /\ \E d \in Dirs : invalidated[d] = lastCall.project
    /\ AttachedTo(lastCall.project) = {}
    /\ \E d \in Dirs : directoryToProjects[d] # NoProject

\* the flags a check is enabled by
IsEnabled(flag) == flag = "true"

\* C24: the template service of every registered project has the options of
\* the project's script service, except that noImplicitAny, noUnusedLocals
\* and noUnusedParameters are not enabled and allowJs and checkJs are.
C24_TemplateOptionsRelaxed ==
    \A p \in RegisteredProjects :
        LET js == HostFlags(engineOptions[projects[p].jsLanguageService])
            tpl == HostFlags(engineOptions[projects[p].templateLanguageService])
        IN  /\ engineOptions[projects[p].templateLanguageService].base
                   = engineOptions[projects[p].jsLanguageService].base
            /\ ~IsEnabled(tpl.noImplicitAny)
            /\ ~IsEnabled(tpl.noUnusedLocals)
            /\ ~IsEnabled(tpl.noUnusedParameters)
            /\ IsEnabled(tpl.allowJs)
            /\ IsEnabled(tpl.checkJs)

\* the same without the implicit-any check
C24_RelaxedButForImplicitAny ==
    \A p \in RegisteredProjects :
        LET js == HostFlags(engineOptions[projects[p].jsLanguageService])
            tpl == HostFlags(engineOptions[projects[p].templateLanguageService])
        IN  /\ engineOptions[projects[p].templateLanguageService].base
                   = engineOptions[projects[p].jsLanguageService].base
            /\ tpl.noImplicitAny = js.noImplicitAny
            /\ ~IsEnabled(tpl.noUnusedLocals)
            /\ ~IsEnabled(tpl.noUnusedParameters)
            /\ IsEnabled(tpl.allowJs)
            /\ IsEnabled(tpl.checkJs)

\* the last call was an update of a composite file whose script document was
\* recorded before, in the language given
UpdateOfRecorded(call) ==
    /\ call.op = "updateCurrentVueTextDocument"
    /\ call.before # NoDoc

WorkspaceScriptFiles == {f \in SnapshotFiles : ~IncludesNodeModules(f)}

\* the step is the report of a change of f
UpdateOf(f) == lastCall'.op = "updateExternalDocument" /\ lastCall'.path = f

\* C26: for a js/ts file f of the workspace, the snapshot cached for f stays
\* the same object until updateExternalDocument(f), and getScriptSnapshot(f)
\* returns it without reading the file; updateExternalDocument(f) of a file
\* that is not excluded adds one to the version of f and drops the snapshot,
\* so that the next getScriptSnapshot(f) reads the file as it then is on disk.
C26_SnapshotCachedUntilUpdate ==
    [][\A f \in WorkspaceScriptFiles :
          /\ (projectSnapshotOf[f] # NoSnapshot /\ ~UpdateOf(f)) =>
                 projectSnapshotOf'[f] = projectSnapshotOf[f]
          /\ (lastCall'.op = "getScriptSnapshot" /\ lastCall'.path = f) =>
                 IF projectSnapshotOf[f] # NoSnapshot
                 THEN /\ lastCall'.results = <<projectSnapshotOf[f]>>
                      /\ reads'[f] = reads[f]
                 ELSE /\ lastCall'.results[1].read = reads[f] + 1
                      /\ lastCall'.results[1].text = sysText[f]
                      /\ reads'[f] = reads[f] + 1
                      /\ projectSnapshotOf'[f] = lastCall'.results[1]
          /\ (UpdateOf(f) /\ ~isExcludedFile(f)) =>
                 /\ projectSnapshotOf'[f] = NoSnapshot
                 /\ f \notin projectFileSnapshots'
                 /\ versions'[f] = versions[f] + 1]_vars

\* a workspace file was read again after it was written and reported
C26_FileReadAgainAfterUpdate ==
    /\ lastCall.op = "getScriptSnapshot"
    /\ lastCall.path = UtilTs
    /\ lastCall.results[1].read = 2
    /\ lastCall.results[1].text = 1
    /\ versions[UtilTs] = 1

\* the files under node_modules the language services read
NodeModuleFiles == {f \in SnapshotFiles : IncludesNodeModules(f)}

\* C30: getScriptVersion answers '0' for every path under node_modules and for
\* the bridge file, whatever was reported about them; the snapshot made for a
\* path under node_modules by the first getScriptSnapshot is the object every
\* later call returns, without a read, whatever updateExternalDocument did.
C30_NodeModulesNeverRefreshed ==
    [][/\ (/\ lastCall'.op = "getScriptVersion"
           /\ (IncludesNodeModules(lastCall'.path) \/ lastCall'.path = BridgeFileName))
          => lastCall'.results = <<"0">>
       /\ \A f \in NodeModuleFiles :
            /\ nodeModuleSnapshots[f] # NoSnapshot =>
                   nodeModuleSnapshots'[f] = nodeModuleSnapshots[f]
            /\ (lastCall'.op = "getScriptSnapshot" /\ lastCall'.path = f) =>
                   /\ lastCall'.results = <<nodeModuleSnapshots'[f]>>
                   /\ nodeModuleSnapshots[f] # NoSnapshot => reads'[f] = reads[f]
                   /\ lastCall'.results[1].read = 1]_vars

\* the version of a dependency's file was asked after changes of it were reported
C30_VersionAskedAfterUpdate ==
    /\ lastCall.op = "getScriptVersion"
    /\ lastCall.path = LibFile
    /\ versions[LibFile] = 2
    /\ nodeModuleSnapshots[LibFile] # NoSnapshot
    /\ nodeModuleSnapshots[LibFile].text # sysText[LibFile]

\* name is asked about at position i of names and at no earlier position
FirstAt(names, i) == \A j \in 1..(i - 1) : names[j] # names[i]

\* name is among the names the resolver was called for
AskedFor(call, name) == \E j \in 1..Len(call.asked) : call.asked[j] = name

\* C27: resolveModuleNames returns one result per name, the i-th for the i-th
\* name; the bridge module name gives the bridge file, is never looked up in
\* or stored to the cache and never given to the resolver; a name with a
\* cached resolution gets that resolution and the resolver is not called; a
\* name without one is given to the resolver, and its resolution is stored
\* when and only when the resolver found the module.
C27_ResolutionsInOrderAndCached ==
    [][lastCall'.op = "resolveModuleNames" =>
          LET names == lastCall'.args[1]
              founds == lastCall'.args[2]
              results == lastCall'.results
              containingFile == lastCall'.path
          IN  /\ Len(results) = Len(names)
              /\ \A c \in ContainingFiles :
                     moduleResolutionCache'[<<BridgeModuleName, c>>] = NoResolution
              /\ \A i \in 1..Len(names) :
                     LET name == names[i]
                         key == <<name, containingFile>>
                     IN  IF name = BridgeModuleName
                         THEN /\ results[i].resolvedFileName = BridgeFileName
                              /\ ~AskedFor(lastCall', name)
                         ELSE IF moduleResolutionCache[key] # NoResolution
                         THEN /\ results[i] = moduleResolutionCache[key]
                              /\ moduleResolutionCache'[key] = moduleResolutionCache[key]
                              /\ ~AskedFor(lastCall', name)
                         ELSE /\ AskedFor(lastCall', name)
                              /\ FirstAt(names, i) =>
                                     IF founds[i]
                                     THEN /\ results[i] # NoResolution
                                          /\ results[i].resolvedFileName \in
                                                 {ResolvedFileOf(name),
                                                  StripTs(ResolvedFileOf(name))}
                                          /\ moduleResolutionCache'[key] = results[i]
                                     ELSE /\ results[i] = NoResolution
                                          /\ moduleResolutionCache'[key] = NoResolution]_vars

\* a list of three names was resolved: one cached before, one not found
C27_CachedAndFailedInOneCall ==
    /\ lastCall.op = "resolveModuleNames"
    /\ Len(lastCall.results) = 3
    /\ lastCall.asked = <<ZImport>>
    /\ lastCall.results[2] # NoResolution
    /\ lastCall.results[3] = NoResolution
    /\ lastCall.args[2][2] = FALSE

\* the virtual template files of the script mode's documents
ModeTemplateFiles == {TemplateOf(f) : f \in ModePaths}

\* C28: doValidation reads the template type-checking setting of the current
\* configuration; when it is off, the call leaves the recorded document and
\* the version of every '.template' file and the tracked files' '.template'
\* entries as they were, asks the template service nothing and returns the
\* script's diagnostics alone.
C28_TemplateCheckDisabledTouchesNoTemplate ==
    [][(/\ outcome'.op = "doValidation"
        /\ outcome'.result # "threw"
        /\ (outcome' # outcome \/ serviceHost' # serviceHost))
       => /\ outcome'.raw.enabledTemplateValidation = config.templateTypeCheck
          /\ ~config.templateTypeCheck =>
                 /\ \A t \in ModeTemplateFiles :
                        /\ serviceHost'.versions[t] = serviceHost.versions[t]
                        /\ serviceHost'.scriptDocs[t] = serviceHost.scriptDocs[t]
                        /\ (t \in serviceHost'.files) <=> (t \in serviceHost.files)
                 /\ outcome'.raw.template = <<>>
                 /\ Len(outcome'.list)
                        = Len(outcome'.raw.syntactic) + Len(outcome'.raw.semantic)
                 /\ \A i \in 1..Len(outcome'.list) :
                        outcome'.list[i].code \in {1005, 6133, 2304}]_vars

\* the template was checked by one validation and, the setting turned off,
\* left alone by a later one that reported the script's diagnostics
C28_ValidatedWithSettingTurnedOff ==
    /\ outcome.op = "doValidation"
    /\ outcome.result = "value"
    /\ ~outcome.raw.enabledTemplateValidation
    /\ outcome.list # <<>>
    /\ serviceHost.versions[TemplateOf(XVue)] = 1
    /\ serviceHost.scriptDocs[TemplateOf(XVue)].version = 1
    /\ outcome.path = XVue
    /\ serviceHost.scriptDocs[XVue].version = 2

\* C29: updateExternalDocument of a path the workspace configuration excludes
\* changes neither the versions of the files, the project version, the cached
\* snapshots, the projects nor the attachments of the directories.
C29_ExcludedUpdateChangesNothing ==
    [][(/\ lastCall'.op = "updateExternalDocument"
        /\ lastCall'.path \in ExcludedFiles)
       => /\ versions' = versions
          /\ projectVersion' = projectVersion
          /\ projectFileSnapshots' = projectFileSnapshots
          /\ projectSnapshotOf' = projectSnapshotOf
          /\ nodeModuleSnapshots' = nodeModuleSnapshots
          /\ projectsLanguageServices' = projectsLanguageServices
          /\ projects' = projects
          /\ engineOptions' = engineOptions
          /\ disposed' = disposed
          /\ directoryToProjects' = directoryToProjects]_vars

\* an excluded file with a cached snapshot was written and reported
C29_ExcludedFileReported ==
    /\ lastCall.op = "updateExternalDocument"
    /\ lastCall.path = GenJs
    /\ GenJs \in projectFileSnapshots
    /\ projectSnapshotOf[GenJs].text # sysText[GenJs]
    /\ versions[GenJs] = 0
    /\ \E d \in Dirs : directoryToProjects[d] # NoProject

(***************************************************************************)
(* The tag providers of the template mode                                  *)
(* (modes/template/tagProviders/index.ts).                                 *)
(***************************************************************************)
\* allTagProviders, by id, in the order of the array
allTagProviders == <<"html5", "vue", "router", "element", "onsen", "bootstrap">>
ProviderIds == {allTagProviders[i] : i \in 1..Len(allTagProviders)}

\* the package each optional provider is enabled by
PackageOf(id) ==
    IF id = "router" THEN "vue-router"
    ELSE IF id = "element" THEN "element-ui"
    ELSE IF id = "onsen" THEN "vue-onsenui"
    ELSE "bootstrap-vue"
OptionalProviders == {"router", "element", "onsen", "bootstrap"}
PackageNames == {PackageOf(id) : id \in OptionalProviders}

\* what the dependencies object holds for a package: nothing, a version, or
\* the empty string
DependencyValues == {"undefined", "^1.0.0", ""}
NoDependencies == [p \in PackageNames |-> "none"]

\* the package.json found from the workspace path: whether there is one,
\* whether it can be read, whether its text is JSON, and its dependencies
\* field (NoDependencies: the field is absent)
PackageJsons ==
    {[found |-> FALSE, readable |-> FALSE, parses |-> FALSE, dependencies |-> NoDependencies],
     [found |-> TRUE, readable |-> FALSE, parses |-> FALSE, dependencies |-> NoDependencies],
     [found |-> TRUE, readable |-> TRUE, parses |-> FALSE, dependencies |-> NoDependencies],
     [found |-> TRUE, readable |-> TRUE, parses |-> TRUE, dependencies |-> NoDependencies]}
    \cup {[found |-> TRUE, readable |-> TRUE, parses |-> TRUE, dependencies |-> d] :
             d \in [PackageNames -> DependencyValues]}

\* the workspace paths given: undefined, the empty string, a directory
TagWorkspacePaths == {Undefined, <<>>, DirA}

\* the settings object getTagProviderSettings starts from (26-33)
DefaultTagProviderSettings ==
    [id \in ProviderIds |-> IF id \in {"html5", "vue"} THEN "true" ELSE "false"]

\* JavaScript truthiness of a dependencies entry
Truthy(v) == v \notin {"undefined", ""}

\* the body of the try block (38-51): what it throws or the settings it leaves
TagProviderSettingsTry(settings, pkg) ==
    IF ~pkg.found \/ ~pkg.readable \/ ~pkg.parses
    THEN [threw |-> TRUE, settings |-> settings]
    ELSE IF pkg.dependencies = NoDependencies
    THEN [threw |-> TRUE, settings |-> settings]
    ELSE [threw |-> FALSE,
          settings |-> [id \in ProviderIds |->
                           IF id \in OptionalProviders
                              /\ Truthy(pkg.dependencies[PackageOf(id)])
                           THEN "true" ELSE settings[id]]]

\* Variant of getTagProviderSettings without the catch clause.
getTagProviderSettingsUncaught(path, pkg) ==
    IF path \in {Undefined, <<>>}
    THEN [threw |-> FALSE, settings |-> DefaultTagProviderSettings]
    ELSE TagProviderSettingsTry(DefaultTagProviderSettings, pkg)

\* getTagProviderSettings (25-54)
getTagProviderSettings(path, pkg) ==
    IF path \in {Undefined, <<>>}
    THEN [threw |-> FALSE, settings |-> DefaultTagProviderSettings]
    ELSE [threw |-> FALSE,
          settings |-> TagProviderSettingsTry(DefaultTagProviderSettings, pkg).settings]

\* the settings a caller can pass: a value or none for each provider
TagProviderSettings ==
    {s \in [ProviderIds -> {"true", "false", "undefined"}] :
        s["onsen"] = "false" /\ s["bootstrap"] = "undefined"}

RECURSIVE FilterEnabled(_, _)
FilterEnabled(providers, tagProviderSetting) ==
    IF providers = <<>> THEN <<>>
    ELSE (IF tagProviderSetting[Head(providers)] # "false"
          THEN <<Head(providers)>> ELSE <<>>)
            \o FilterEnabled(Tail(providers), tagProviderSetting)

\* Variant of getEnabledTagProviders that takes the providers set to true.
getEnabledTagProvidersSetTrue(tagProviderSetting) ==
    FilterEnabled(allTagProviders,
                  [id \in ProviderIds |->
                      IF tagProviderSetting[id] = "true" THEN "true" ELSE "false"])

\* getEnabledTagProviders (56-58)
getEnabledTagProviders(tagProviderSetting) ==
    FilterEnabled(allTagProviders, tagProviderSetting)

TagProviderSettingsRead(path, pkg) ==
    /\ lastCall' = [Call("getTagProviderSettings", path, NoDoc, NoDoc, NoProject, NoProject)
                      EXCEPT !.args = <<pkg>>,
                             !.results = <<getTagProviderSettings(path, pkg)>>]
    /\ UNCHANGED <<modeVars, fs, cfgRev, cfgJson, sysText, registryVars, hostVars,
                   invalidated, registeredVia>>

EnabledTagProvidersRead(tagProviderSetting) ==
    /\ lastCall' = [Call("getEnabledTagProviders", <<>>, NoDoc, NoDoc, NoProject, NoProject)
                      EXCEPT !.args = <<tagProviderSetting>>,
                             !.results = <<getEnabledTagProviders(tagProviderSetting)>>]
    /\ UNCHANGED <<modeVars, fs, cfgRev, cfgJson, sysText, registryVars, hostVars,
                   invalidated, registeredVia>>

NextTags ==
    \/ \E path \in TagWorkspacePaths, pkg \in PackageJsons :
           TagProviderSettingsRead(path, pkg)
    \/ \E tagProviderSetting \in TagProviderSettings :
           EnabledTagProvidersRead(tagProviderSetting)

InitTags == Init /\ fs = {}

SpecTags == InitTags /\ [][NextTags]_vars

\* position of id in a sequence of ids, 0 when absent
IndexIn(seq, id) ==
    IF \E i \in 1..Len(seq) : seq[i] = id
    THEN CHOOSE i \in 1..Len(seq) : seq[i] = id
    ELSE 0

\* C31: getTagProviderSettings does not throw; html5 and vue are on in every
\* result; an optional provider is on only when its package has an entry in
\* the dependencies read; the defaults are returned when there is no
\* workspace path or package.json is missing, unreadable, not JSON or without
\* dependencies. getEnabledTagProviders returns, in the order of
\* allTagProviders, exactly the providers whose setting is not false.
C31_TagProviderSettingsTotal ==
    /\ lastCall.op = "getTagProviderSettings" =>
           LET pkg == lastCall.args[1]
               r == lastCall.results[1]
               usable == /\ lastCall.path \notin {Undefined, <<>>}
                         /\ pkg.found /\ pkg.readable /\ pkg.parses
                         /\ pkg.dependencies # NoDependencies
           IN  /\ ~r.threw
               /\ r.settings["html5"] = "true" /\ r.settings["vue"] = "true"
               /\ ~usable => r.settings = DefaultTagProviderSettings
               /\ \A id \in OptionalProviders :
                      r.settings[id] = "true" =>
                          /\ usable
                          /\ pkg.dependencies[PackageOf(id)] # "undefined"
    /\ lastCall.op = "getEnabledTagProviders" =>
           LET setting == lastCall.args[1]
               r == lastCall.results[1]
           IN  /\ \A id \in ProviderIds :
                      (IndexIn(r, id) # 0) <=> (setting[id] # "false")
               /\ \A i, j \in 1..Len(r) :
                      i < j => IndexIn(allTagProviders, r[i]) < IndexIn(allTagProviders, r[j])

\* the settings were read for a workspace whose package.json has no
\* dependencies field
C31_PackageWithoutDependencies ==
    /\ lastCall.op = "getTagProviderSettings"
    /\ lastCall.path = DirA
    /\ lastCall.args[1].parses
    /\ lastCall.args[1].dependencies = NoDependencies
    /\ lastCall.results[1].settings = DefaultTagProviderSettings

RECURSIVE SumOver(_, _)
SumOver(f, S) ==
    IF S = {} THEN 0
    ELSE LET x == CHOOSE y \in S : TRUE IN f[x] + SumOver(f, S \ {x})

\* C32: the project version is 1 plus the sum of the versions of the files;
\* no step lowers a version, and a step adds one to the project version
\* exactly when it adds one to the version of one file.
C32_ProjectVersionCountsFileVersions ==
    /\ [](projectVersion = 1 + SumOver(versions, VersionedFiles))
    /\ [][/\ projectVersion' \in {projectVersion, projectVersion + 1}
          /\ \A f \in VersionedFiles : versions'[f] \in {versions[f], versions[f] + 1}
          /\ (projectVersion' = projectVersion + 1)
                <=> (\E f \in VersionedFiles : versions'[f] = versions[f] + 1)]_vars

\* the template of a document and a script file have each been updated
C32_TwoKindsOfUpdate ==
    /\ versions[TemplateOf(XVue)] = 1
    /\ versions[UtilTs] = 1
    /\ projectVersion = 3


(***************************************************************************)
(* What the language services are shown of the files on disk: one project, *)
(* the files written and reported, the composite file of the project       *)
(* opened in the editor or loaded by a host query, and the snapshot and    *)
(* version queries.                                                        *)
(***************************************************************************)
ShownDocs == {TextDocumentCreate(Uri(ZVue), "vue", 1, TsText)}

\* the files followed: a js/ts file and a composite file of the project, and
\* an excluded one of each kind
ShownFiles == {UtilTs, GenJs} \cup DiskVueFiles

NextShown ==
    \/ queryVirtualFileInfo(ZVue)
    \/ \E f \in ShownFiles : ExternalFileWritten(f)
    \/ \E e \in EngineIds, f \in ShownFiles : getScriptSnapshot(e, f)
    \/ \E e \in EngineIds : getScriptKind(e, ZVue, DiskVueText(ZVue))
    \/ \E doc \in ShownDocs : updateCurrentVueTextDocument(doc)

SpecShown == InitSnapshots /\ [][NextShown]_vars

\* the getScriptSnapshot(f) call of this step returns another text than the
\* call before it did
ShownAnotherText(f) ==
    /\ lastCall'.op = "getScriptSnapshot"
    /\ lastCall'.path = f
    /\ shown[f] # <<>>
    /\ shown'[f][1].text # shown[f][1].text

\* C33: when a getScriptSnapshot(f) call returns another text than the call
\* before it, the version getScriptVersion(f) reports is another one too, for
\* every file whose changes on disk are all reported by updateExternalDocument
\* (versions never decrease, so this covers any two calls).
C33_ChangedTextUnderChangedVersion ==
    [][\A f \in ShownFiles :
          ShownAnotherText(f) => shown'[f][1].version # shown[f][1].version]_vars

\* the same for the files the configuration does not exclude
C33_IncludedFilesVersioned ==
    [][\A f \in ShownFiles \ ExcludedFiles :
          ShownAnotherText(f) => shown'[f][1].version # shown[f][1].version]_vars

\* the same for the js/ts files, excluded or not
C33_ScriptFilesVersioned ==
    [][\A f \in ExternalFiles :
          ShownAnotherText(f) => shown'[f][1].version # shown[f][1].version]_vars

\* an excluded composite file was shown with two texts
C33_ExcludedCompositeShownTwice ==
    /\ lastCall.op = "getScriptSnapshot"
    /\ lastCall.path = DistVue
    /\ shown[DistVue] # <<>>
    /\ shown[DistVue][1].text = parseVueScript(VueTextOfRev(1))


(***************************************************************************)
(* Documents closed and opened again: onDocumentRemoved (javascript.ts     *)
(* 548-550) hands the document to jsDocuments.onDocumentRemoved, which     *)
(* drops what the cache holds for it.  The service host reads the cache    *)
(* through refreshAndGet only, which derives the script document anew, and *)
(* nothing the host itself remembers is touched.                           *)
(***************************************************************************)
onDocumentRemoved(document) ==
    /\ lastCall' = Call("onDocumentRemoved", getFileFsPath(document.uri), document,
                        localScriptRegionDocuments[getFileFsPath(document.uri)],
                        NoProject, NoProject)
    /\ UNCHANGED <<modeVars, fs, cfgRev, cfgJson, sysText, registryVars, hostVars,
                   invalidated, registeredVia>>

NextClose ==
    \/ \E doc \in ClientDocs : updateCurrentVueTextDocument(doc)
    \/ \E doc \in ClientDocs : onDocumentRemoved(doc)
    \/ \E e \in EngineIds, f \in VueFiles : getScriptSnapshot(e, f)

SpecClose == InitHost /\ [][NextClose]_vars

\* the document of this step's updateCurrentVueTextDocument call was closed by
\* the step before it
OpenedAfterClose ==
    /\ lastCall.op = "onDocumentRemoved"
    /\ lastCall'.op = "updateCurrentVueTextDocument"
    /\ lastCall'.path = lastCall.path

\* C34: the operation that follows the closing of a document, on a document of
\* the same identity, works on the script document derived from the text it is
\* given, also when the version number is the one the closed document had.
C34_ReopenedDocumentDerivedAnew ==
    [][OpenedAfterClose => currentScriptDoc' = refreshAndGet(lastCall'.doc)]_vars

\* the same when the closed document was not the one the host handled last, or
\* comes back under another version number
C34_ReopenedOtherDocumentDerivedAnew ==
    [][OpenedAfterClose /\ DocChanged(lastCall'.doc)
          => /\ currentScriptDoc' = refreshAndGet(lastCall'.doc)
             /\ localScriptRegionDocuments'[lastCall'.path] = currentScriptDoc']_vars

\* a document was opened again with its old version number and another text,
\* and the host still holds the script document of the old text
C34_StaleScriptDocumentServed ==
    /\ lastCall.op = "updateCurrentVueTextDocument"
    /\ lastCall.doc.text = TsText
    /\ lastCall.before.version = lastCall.doc.version
    /\ lastCall.before.text = refreshAndGet(TextDocumentCreate(Uri(XVue), "vue", 1, JsText)).text
    /\ currentScriptDoc = lastCall.before


\* the composite file f is not open in the editor: no document of the client
\* (version 1 and up) is recorded for it
NotOpen(f) == localScriptRegionDocuments[f].version < 1

\* updateExternalDocument(f) was called: it counted a version of f, or it is
\* the call just made
Reported(f) ==
    \/ versions[f] > 0
    \/ lastCall.op = "updateExternalDocument" /\ lastCall.path = f

\* this step is getScriptSnapshot(f) for a composite file not open in the
\* editor, after an updateExternalDocument(f)
SnapshotAfterUpdate(f) ==
    /\ lastCall'.op = "getScriptSnapshot"
    /\ lastCall'.path = f
    /\ NotOpen(f)
    /\ Reported(f)

\* C35: after updateExternalDocument(f) for a composite file f that is not
\* open in the editor, getScriptSnapshot(f) returns the script of what f holds
\* on disk, also when getScriptKind or resolveModuleNames loaded f before.
C35_SnapshotOfUnopenedFileFromDisk ==
    [][\A f \in DiskVueFiles :
          SnapshotAfterUpdate(f)
              => lastCall'.results[1].text = parseVueScript(DiskVueText(f))]_vars

\* the same for the files no host query has loaded
C35_SnapshotOfUnloadedFileFromDisk ==
    [][\A f \in DiskVueFiles :
          SnapshotAfterUpdate(f) /\ localScriptRegionDocuments[f] = NoDoc
              => lastCall'.results[1].text = parseVueScript(DiskVueText(f))]_vars

\* the snapshot of a file loaded by a host query and rewritten since was asked
C35_LoadedFileRewrittenAndAsked ==
    /\ lastCall.op = "getScriptSnapshot"
    /\ lastCall.path = ZVue
    /\ localScriptRegionDocuments[ZVue].version = 0
    /\ versions[ZVue] > 0
    /\ sysText[ZVue] = 1


\* C36: in every state a directory is in the attachedDirectories set of a
\* Project exactly when directoryToProjects maps the directory to that
\* Project, so that a directory is in the set of one Project at most.
C36_AttachmentsAgreeBothWays ==
    \A p \in ProjectIds, d \in Dirs :
        d \in projects[p].attachedDirectories <=> directoryToProjects[d] = p

\* one direction: the directories directoryToProjects maps to a Project are in
\* its attachedDirectories set
C36_MappedDirectoriesAreAttached ==
    \A p \in ProjectIds : AttachedTo(p) \subseteq projects[p].attachedDirectories

\* a directory in the attachedDirectories sets of two Projects
C36_DirectoryInTwoSets ==
    \E p, q \in ProjectIds, d \in Dirs :
        /\ p # q
        /\ d \in projects[p].attachedDirectories
        /\ d \in projects[q].attachedDirectories
        /\ directoryToProjects[d] = q


\* C37: a step that changes scriptFileNameSet, the root files handed to the
\* language services, adds one to projectVersion; the set never differs
\* between two states of the same project version.
C37_TrackedFilesChangeBumpsProjectVersion ==
    [][scriptFileNameSet' # scriptFileNameSet
          => projectVersion' = projectVersion + 1]_vars

\* the same for the steps that record a document: updateCurrentVueTextDocument
\* and updateCurrentVirtualVueTextDocument for a template path
C37_RecordedDocumentBumpsProjectVersion ==
    [][(/\ scriptFileNameSet' # scriptFileNameSet
        /\ lastCall'.op \in {"updateCurrentVueTextDocument",
                             "updateCurrentVirtualVueTextDocument"}
        /\ localScriptRegionDocuments'[lastCall'.path]
               # localScriptRegionDocuments[lastCall'.path])
          => projectVersion' = projectVersion + 1]_vars

\* a host query added a file to the tracked set and the project version is
\* still the initial one
C37_FileAddedUnderInitialVersion ==
    /\ lastCall.op = "getScriptKind"
    /\ lastCall.before = NoDoc
    /\ ZVue \in scriptFileNameSet
    /\ projectVersion = 1


\* C38: realpath answers a path of the class of the path it is given: for a
\* virtual script path the real path of the composite file with the script
\* suffix put back, for a virtual template path the real path of the composite
\* file with the template suffix put back, a '.vue.ts' path below node_modules
\* counting as an ordinary path.
C38_RealpathKeepsPathClass ==
    lastCall.op = "realpath" =>
        LET path == lastCall.path
            linked == lastCall.args[1]
            result == lastCall.results[1]
        IN  /\ SysBranch(result) = SysBranch(path)
            /\ SysBranch(path) = "script"
                   => result = AddExt(sysRealpath(linked, StripTs(path)), "ts")
            /\ SysBranch(path) = "template"
                   => result = AddExt(sysRealpath(linked, StripTemplate(path)), "template")
            /\ SysBranch(path) = "other" => result = sysRealpath(linked, path)

\* the same for the paths that are no virtual template paths
C38_RealpathKeepsScriptAndOrdinaryClass ==
    lastCall.op = "realpath" /\ ~isVirtualVueTemplateFile(lastCall.path) =>
        LET path == lastCall.path
            linked == lastCall.args[1]
            result == lastCall.results[1]
        IN  /\ SysBranch(result) = SysBranch(path)
            /\ SysBranch(path) = "script"
                   => result = AddExt(sysRealpath(linked, StripTs(path)), "ts")
            /\ SysBranch(path) = "other" => result = sysRealpath(linked, path)

\* the real path of a virtual template path, asked through a symbolic link,
\* came back as a virtual script path
C38_TemplatePathBecameScriptPath ==
    /\ lastCall.op = "realpath"
    /\ lastCall.path = AddExt(XVue, "template")
    /\ lastCall.args = <<TRUE>>
    /\ lastCall.results[1] = AddExt(Append(DirB, <<"x", "vue">>), "ts")
    /\ SysBranch(lastCall.results[1]) = "script"

=============================================================================
